---- MODULE Spec2Model ----
(***************************************************************************)
(* Model of the SQLCipher WASM binding layer, lib/sqlite-api.cjs:          *)
(* SQLiteAPI.open and the SQLiteDatabase methods, over an abstract engine  *)
(* (the compiled sqlite3_* entry points) and the shared linear-memory      *)
(* arena (malloc / allocateUTF8 / free).                                   *)
(*                                                                         *)
(* Host strings are sequences of characters; a character is a one-token    *)
(* TLA+ string, and a fixed piece of a template literal is one token.      *)
(***************************************************************************)
EXTENDS Integers, Sequences, FiniteSets, TLC

(* ------------------------------ bounds --------------------------------- *)
MaxAddr == 5        \* addresses 1..MaxAddr of the arena
MaxKeyLen == 2      \* longest key string handed to open / setKey / rekey
MaxParams == 2      \* longest params list handed to query
MaxHandles == 2     \* engine connection handles 1..MaxHandles
MaxTableRows == 2   \* most rows the table t holds
MaxLoads == 3       \* initSQLite calls made on the one module
MaxSuites == 3      \* suites the test runner runs

(* -------------------------- program constants -------------------------- *)
SQLITE_OK == 0
SQLITE_ROW == 100
SQLITE_DONE == 101
\* stands for every engine status other than OK / ROW / DONE
SQLITE_ERROR == SQLITE_OK + 1

(* ------------------------------ strings -------------------------------- *)
NUL == "NUL"            \* the zero byte that ends a C string
QUOTE == "'"

RECURSIVE CStr(_)
\* what a reader of a NUL-terminated buffer sees: the bytes before the first NUL
CStr(bytes) ==
    IF bytes = <<>> \/ Head(bytes) = NUL THEN <<>>
    ELSE <<Head(bytes)>> \o CStr(Tail(bytes))

\* Module.UTF8ToString(ptr) on the bytes found at ptr
UTF8ToString(bytes) == CStr(bytes)

\* the bytes Module.allocateUTF8(s) writes: the string and a trailing NUL
UTF8Bytes(s) == s \o <<NUL>>

RECURSIVE ReplaceFirstQuote(_)
\* key.replace("'", "''"): without the g flag only the first quote is doubled
ReplaceFirstQuote(s) ==
    IF s = <<>> THEN <<>>
    ELSE IF Head(s) = QUOTE THEN <<QUOTE, QUOTE>> \o Tail(s)
         ELSE <<Head(s)>> \o ReplaceFirstQuote(Tail(s))

RECURSIVE ReplaceQuotesDropped(_)
\* key.replace(/'/g, ""): the quotes removed instead of doubled
ReplaceQuotesDropped(s) ==
    IF s = <<>> THEN <<>>
    ELSE (IF Head(s) = QUOTE THEN <<>> ELSE <<Head(s)>>)
         \o ReplaceQuotesDropped(Tail(s))

RECURSIVE ReplaceQuotes(_)
\* key.replace(/'/g, "''")
ReplaceQuotes(s) ==
    IF s = <<>> THEN <<>>
    ELSE (IF Head(s) = QUOTE THEN <<QUOTE, QUOTE>> ELSE <<Head(s)>>)
         \o ReplaceQuotes(Tail(s))

Digit(d) == <<"0", "1", "2", "3", "4", "5", "6", "7", "8", "9">>[d + 1]

RECURSIVE DecNat(_)
DecNat(n) == IF n < 10 THEN <<Digit(n)>> ELSE DecNat(n \div 10) \o <<Digit(n % 10)>>

\* decimal text of an integer
Dec(n) == IF n < 0 THEN <<"-">> \o DecNat(-n) ELSE DecNat(n)

(* ------------------------------- arena --------------------------------- *)
Addr == 1..MaxAddr
FreeCell == [kind |-> "free", bytes |-> <<>>]
EmptyArena == [a \in Addr |-> FreeCell]

Live(ar) == {a \in Addr : ar[a].kind # "free"}
FreeAddrs(ar) == Addr \ Live(ar)

\* Module._malloc: the lowest free address (first fit)
Malloc(ar) == CHOOSE a \in FreeAddrs(ar) : \A b \in FreeAddrs(ar) : a <= b

\* the arena after an allocation that is filled with bytes
Alloc(ar, kind, bytes) == [ar EXCEPT ![Malloc(ar)] = [kind |-> kind, bytes |-> bytes]]

\* Module._free(ptr): the buffer at ptr is released; a free of an address
\* that holds no buffer corrupts the allocator, marked at the address
Free(ar, ptr) ==
    [ar EXCEPT ![ptr] = IF @.kind = "free"
                        THEN [kind |-> "doublefree", bytes |-> <<>>] ELSE FreeCell]

\* a buffer that stays allocated with no reference to it left anywhere: its
\* content can no longer be read and is not kept
Orphan(ar, ptr) == IF ptr = 0 THEN ar ELSE [ar EXCEPT ![ptr].bytes = <<>>]

\* Module.getValue(ptr, 'i32')
GetValue(ar, ptr) == ar[ptr].bytes[1]

(* ------------------------------- values -------------------------------- *)
\* host (JavaScript) values: t is the typeof tag; a number is
\* w * 2^32 + n + d/10 with n in the signed 32-bit range (so Number.isInteger
\* is d = 0), a string is s, a Uint8Array is the bytes s
HNull == [t |-> "null", n |-> 0, w |-> 0, d |-> 0, s |-> <<>>]
HNum(n) == [t |-> "number", n |-> n, w |-> 0, d |-> 0, s |-> <<>>]
\* an integer beyond the signed 32-bit range: w * 2^32 + n
HBig(w, n) == [t |-> "number", n |-> n, w |-> w, d |-> 0, s |-> <<>>]
HStr(s) == [t |-> "string", n |-> 0, w |-> 0, d |-> 0, s |-> s]
HBool == [t |-> "boolean", n |-> 1, w |-> 0, d |-> 0, s |-> <<>>]
\* typeof new Uint8Array(...) is 'object'
HBlob(b) == [t |-> "object", n |-> 0, w |-> 0, d |-> 0, s |-> b]
IsInteger(param) == param.d = 0

\* the conversion of a host number to the C int parameter of an engine
\* entry point: the number modulo 2^32, in the signed 32-bit range
ToInt32(param) == param.n

\* engine values, tagged by their runtime type: an INTEGER is n, a REAL is
\* n + d/10, a TEXT or BLOB is the bytes s; ptr is used by a text binding
ENull == [type |-> "NULL", n |-> 0, d |-> 0, s |-> <<>>, ptr |-> 0]
EInt(n) == [type |-> "INTEGER", n |-> n, d |-> 0, s |-> <<>>, ptr |-> 0]
EReal(n, d) == [type |-> "REAL", n |-> n, d |-> d, s |-> <<>>, ptr |-> 0]
EText(s) == [type |-> "TEXT", n |-> 0, d |-> 0, s |-> s, ptr |-> 0]
EBlob(b) == [type |-> "BLOB", n |-> 0, d |-> 0, s |-> b, ptr |-> 0]
\* a text bound by address: the engine keeps the address, not a copy
ETextAt(ptr) == [type |-> "TEXTPTR", n |-> 0, d |-> 0, s |-> <<>>, ptr |-> ptr]

\* the text the engine renders a non-NULL value as
TextOf(val) ==
    CASE val.type = "INTEGER" -> Dec(val.n)
      [] val.type = "REAL" -> Dec(val.n) \o <<".", Digit(val.d)>>
      [] OTHER -> val.s

\* sqlite3_column_text: the null address for NULL, else the address of a
\* NUL-terminated buffer inside the engine that holds the value's text
ColumnText(val) ==
    IF val.type = "NULL" THEN [ptr |-> 0, bytes |-> <<>>]
    ELSE [ptr |-> 1, bytes |-> TextOf(val) \o <<NUL>>]

\* a decode that reads the text at any address, the null address included
DecodeColumnUnchecked(valuePtr) == HStr(UTF8ToString(valuePtr.bytes))

\* valuePtr ? this.module.UTF8ToString(valuePtr) : null
DecodeColumn(valuePtr) ==
    IF valuePtr.ptr # 0 THEN HStr(UTF8ToString(valuePtr.bytes)) ELSE HNull

\* the values a stored column can hold
StoredVals ==
    {ENull, EInt(31), EInt(1), EReal(2, 5), EText(<<"a">>), EText(<<>>),
     EBlob(<<"x", NUL, "y">>)}

\* the entries a caller puts in a params list
ParamVals == {HNull, HNum(2), HNum(3), HStr(<<"a">>), HBool}

RECURSIVE SeqsUpTo(_, _)
SeqsUpTo(S, n) ==
    IF n = 0 THEN {<<>>}
    ELSE LET shorter == SeqsUpTo(S, n - 1)
         IN  shorter \cup {Append(q, x) : q \in shorter, x \in S}

ParamLists == SeqsUpTo(ParamVals, MaxParams)

(* --------------------------- engine call log --------------------------- *)
\* one call of an engine entry point: its name, the handle it is given, its
\* other arguments and the status or value it returns
Call(fn, h, args, ret) == [fn |-> fn, h |-> h, args |-> args, ret |-> ret]

(* ----------------------------- SQL texts ------------------------------- *)
PragmaKeyPrefix == "PRAGMA key = "
PragmaRekeyPrefix == "PRAGMA rekey = "

\* `PRAGMA key = '${key.replace(/'/g, "''")}'`
KeySql(key) == <<PragmaKeyPrefix, QUOTE>> \o ReplaceQuotes(key) \o <<QUOTE>>

\* `PRAGMA rekey = '${newKey.replace(/'/g, "''")}'`
\* rekey issuing the keying directive instead of the re-keying one
RekeySqlAsKey(newKey) == <<PragmaKeyPrefix, QUOTE>> \o ReplaceQuotes(newKey) \o <<QUOTE>>

RekeySql(newKey) == <<PragmaRekeyPrefix, QUOTE>> \o ReplaceQuotes(newKey) \o <<QUOTE>>

CreateSql == <<"CREATE TABLE t(id INTEGER, name TEXT)">>
InsertSql == <<"INSERT INTO t VALUES (1,'a'),(2,'b')">>
SelectAllSql == <<"SELECT * FROM t ORDER BY id">>
SelectSumSql == <<"SELECT ? + ?">>
SelectParamSql == <<"SELECT ?">>
SelectValSql == <<"SELECT v FROM vals">>
SelectDupSql == <<"SELECT 1 AS a, 2 AS a">>
BadSql == <<"INVALID SQL">>
EmptySql == <<>>

\* the statements a caller hands to exec
ExecTexts == {CreateSql, InsertSql, BadSql}
\* the statements a caller hands to query
QueryTexts == {SelectAllSql, SelectSumSql, SelectValSql, BadSql, EmptySql}

RECURSIVE LiteralBody(_)
\* the engine's reading of a string literal after its opening quote: the
\* string it denotes, or "bad" when the literal is unterminated or followed
\* by more text
LiteralBody(s) ==
    IF s = <<>> THEN [ok |-> FALSE, val |-> <<>>]
    ELSE IF Head(s) = QUOTE
         THEN IF Len(s) = 1 THEN [ok |-> TRUE, val |-> <<>>]
              ELSE IF s[2] = QUOTE
                   THEN LET r == LiteralBody(Tail(Tail(s)))
                        IN  [ok |-> r.ok, val |-> <<QUOTE>> \o r.val]
                   ELSE [ok |-> FALSE, val |-> <<>>]
         ELSE LET r == LiteralBody(Tail(s))
              IN  [ok |-> r.ok, val |-> <<Head(s)>> \o r.val]

\* a keying or re-keying directive as the engine parses it
IsPragma(seen, prefix) == Len(seen) >= 1 /\ seen[1] = prefix
PragmaLiteral(seen) ==
    IF Len(seen) >= 2 /\ seen[2] = QUOTE
    THEN LiteralBody(SubSeq(seen, 3, Len(seen)))
    ELSE [ok |-> FALSE, val |-> <<>>]

\* the engine's database behind one connection handle (file: the handle is
\* on the database file; key: the key the handle holds for that file)
FreshDb == [created |-> FALSE, tbl |-> <<>>, keyed |-> FALSE, file |-> FALSE,
            key |-> <<>>]

\* the database file: nothing written yet, or the table written to it and
\* the key its pages were written with
NoFile == [written |-> FALSE, keyed |-> FALSE, key |-> <<>>, created |-> FALSE,
           tbl |-> <<>>]

\* a new handle on the database file: it holds no key yet
FileDb(store) ==
    [created |-> store.created, tbl |-> store.tbl, keyed |-> FALSE, file |-> TRUE,
     key |-> <<>>]

\* the handle can read and write the pages of its database: a file that has
\* pages is readable only with the key they were written with (an empty key
\* is no key)
Readable(edb, store) ==
    ~edb.file \/ ~store.written \/ (store.keyed = edb.keyed /\ store.key = edb.key)

\* the statements that read or write the pages of the database
TouchesPages(seen) ==
    seen \in {CreateSql, InsertSql, SelectAllSql} \/ IsPragma(seen, PragmaRekeyPrefix)

\* the statuses the engine can answer to sqlite3_exec of the text it reads:
\* text it cannot parse, a second CREATE and an INSERT without the table
\* always fail, and so does a statement on pages the handle's key does not
\* read; any other statement can succeed or fail (storage error)
ExecStatuses(seen, edb, store) ==
    IF \/ seen = BadSql
       \/ TouchesPages(seen) /\ ~Readable(edb, store)
       \/ seen = CreateSql /\ edb.created
       \/ seen = InsertSql /\ ~edb.created
       \/ /\ IsPragma(seen, PragmaKeyPrefix) \/ IsPragma(seen, PragmaRekeyPrefix)
          /\ ~PragmaLiteral(seen).ok
    THEN {SQLITE_ERROR}
    ELSE {SQLITE_OK, SQLITE_ERROR}

\* the rows INSERT INTO t VALUES (1,'a'),(2,'b') adds
InsertedRows == << <<EInt(1), EText(<<"a">>)>>, <<EInt(2), EText(<<"b">>)>> >>

\* sqlite3_changes: the rows the last INSERT changed
Changes(edb) == IF edb.tbl = <<>> THEN 0 ELSE Len(InsertedRows)

\* the engine's database after sqlite3_exec answered rc to the text it read
DbAfterExec(edb, seen, rc) ==
    IF rc # SQLITE_OK THEN edb
    ELSE CASE seen = CreateSql -> [edb EXCEPT !.created = TRUE]
           [] seen = InsertSql ->
                [edb EXCEPT !.tbl = @ \o InsertedRows]
           [] IsPragma(seen, PragmaKeyPrefix) \/ IsPragma(seen, PragmaRekeyPrefix) ->
                [edb EXCEPT !.keyed = PragmaLiteral(seen).val # <<>>,
                            !.key = IF edb.file THEN PragmaLiteral(seen).val ELSE <<>>]
           [] OTHER -> edb

\* the database file after sqlite3_exec answered rc on a handle that is, after
\* the statement, in state edb: a write puts the table on the file under the
\* handle's key, a re-keying rewrites the pages of a written file
FileAfterExec(store, edb, seen, rc) ==
    IF rc # SQLITE_OK \/ ~edb.file THEN store
    ELSE CASE seen \in {CreateSql, InsertSql} ->
                [written |-> TRUE, keyed |-> edb.keyed, key |-> edb.key,
                 created |-> edb.created, tbl |-> edb.tbl]
           [] IsPragma(seen, PragmaRekeyPrefix) /\ store.written ->
                [store EXCEPT !.keyed = edb.keyed, !.key = edb.key]
           [] OTHER -> store

\* the text of the engine's error message
EngineMsg == <<"engine error">>

\* the message of a failed sqlite3_exec: for a keying directive whose
\* literal does not end, the parser names the token it could not read
ExecMsg(seen) ==
    IF /\ IsPragma(seen, PragmaKeyPrefix) \/ IsPragma(seen, PragmaRekeyPrefix)
       /\ ~PragmaLiteral(seen).ok
    THEN <<"unrecognized token: ">> \o SubSeq(seen, 2, Len(seen))
    ELSE EngineMsg

(* ------------------------- SQLiteDatabase.exec ------------------------- *)
\* a finally that frees the SQL buffer a second time
ExecFinallyTwice(ar, sqlPtr) == Free(Free(ar, sqlPtr), sqlPtr)

\* the `finally` of exec: this.module._free(sqlPtr)
ExecFinally(ar, sqlPtr) == Free(ar, sqlPtr)

\* an exec that decodes the message at whatever address the cell holds,
\* the null address included (where no message is)
ExecRunUnchecked(ar, dbPtr, sql, eng) ==
    LET sqlPtr == Malloc(ar)
        ar1 == Alloc(ar, "sql", UTF8Bytes(sql))
        errMsgPtr == Malloc(ar1)
        ar2 == Alloc(ar1, "cell", <<0>>)
        msgAddr == IF eng.rc # SQLITE_OK /\ ~eng.msgNull THEN Malloc(ar2) ELSE 0
        ar3 == IF msgAddr # 0
               THEN [Alloc(ar2, "errmsg", UTF8Bytes(EngineMsg))
                       EXCEPT ![errMsgPtr].bytes = <<msgAddr>>]
               ELSE ar2
        errMsg == IF msgAddr # 0 THEN UTF8ToString(ar3[msgAddr].bytes) ELSE <<>>
    IN  [arena |-> Free(Free(ar3, errMsgPtr), sqlPtr),
         issued |-> sql,
         calls |-> <<Call("sqlite3_exec", dbPtr, <<CStr(ar2[sqlPtr].bytes), msgAddr>>,
                          eng.rc)>>,
         thrown |-> eng.rc # SQLITE_OK,
         err |-> IF eng.rc # SQLITE_OK THEN <<"SQLite error: ">> \o errMsg ELSE <<>>]

\* exec(sql) on an open connection; eng = [rc, msgNull] is the engine's
\* answer: its status, and whether it left the error-message cell null.
\* Yields the arena and the engine calls made, and the error thrown if any.
ExecRun(ar, dbPtr, sql, eng) ==
    LET sqlPtr == Malloc(ar)
        ar1 == Alloc(ar, "sql", UTF8Bytes(sql))
        errMsgPtr == Malloc(ar1)
        ar2 == Alloc(ar1, "cell", <<0>>)
        \* sqlite3_exec: on failure the engine allocates the message and
        \* stores its address in the cell, otherwise it stores 0
        msgAddr == IF eng.rc # SQLITE_OK /\ ~eng.msgNull THEN Malloc(ar2) ELSE 0
        ar3 == IF msgAddr # 0
               THEN [Alloc(ar2, "errmsg", UTF8Bytes(ExecMsg(CStr(ar2[sqlPtr].bytes))))
                       EXCEPT ![errMsgPtr].bytes = <<msgAddr>>]
               ELSE [ar2 EXCEPT ![errMsgPtr].bytes = <<0>>]
        call == Call("sqlite3_exec", dbPtr, <<CStr(ar2[sqlPtr].bytes), msgAddr>>, eng.rc)
        errPtr == GetValue(ar3, errMsgPtr)
        errMsg == IF errPtr # 0 THEN UTF8ToString(ar3[errPtr].bytes)
                  ELSE <<"Unknown error">>
        ar4 == Free(ar3, errMsgPtr)
    IN  [arena |-> Orphan(ExecFinally(ar4, sqlPtr), msgAddr),
         issued |-> sql,
         calls |-> <<call>>,
         \* the addresses decoded by UTF8ToString, and the state of the
         \* buffers the engine call was handed, as the call found them
         reads |-> IF eng.rc # SQLITE_OK /\ errPtr # 0 THEN <<errPtr>> ELSE <<>>,
         uses |-> {ar2[sqlPtr].kind, ar2[errMsgPtr].kind},
         thrown |-> eng.rc # SQLITE_OK,
         err |-> IF eng.rc # SQLITE_OK THEN <<"SQLite error: ">> \o errMsg ELSE <<>>]

(* ------------------------ engine: statements --------------------------- *)
\* number of ? placeholders of a statement
ParamCount(seen) ==
    IF seen = SelectSumSql THEN 2 ELSE IF seen = SelectParamSql THEN 1 ELSE 0

ColumnNames(seen) ==
    CASE seen = SelectAllSql -> <<"id", "name">>
      [] seen = SelectSumSql -> <<"? + ?">>
      [] seen = SelectParamSql -> <<"?">>
      [] seen = SelectValSql -> <<"v">>
      [] seen = SelectDupSql -> <<"a", "a">>
      [] OTHER -> <<>>

\* the value a bound parameter has when the statement runs: a text bind
\* keeps the address it was given, and the engine reads the buffer there
BoundValue(ar, b) ==
    IF b.type = "TEXTPTR" THEN EText(CStr(ar[b.ptr].bytes)) ELSE b

\* the number a value counts as in arithmetic (text that is no number: 0)
NumOf(val) == IF val.type = "INTEGER" THEN val.n ELSE 0

RECURSIVE SortById(_)
\* ORDER BY id: the rows in increasing order of their first column
SortById(rows) ==
    IF rows = <<>> THEN <<>>
    ELSE LET least == CHOOSE i \in DOMAIN rows :
                         /\ \A j \in DOMAIN rows : rows[i][1].n <= rows[j][1].n
                         /\ \A j \in 1..(i - 1) : rows[j][1].n # rows[i][1].n
         IN  <<rows[least]>>
             \o SortById(SubSeq(rows, 1, least - 1) \o SubSeq(rows, least + 1, Len(rows)))

\* the rows a statement produces, given the table, the stored value it
\* reads and its bound parameters
ResultRows(seen, tbl, stored, ar, bound) ==
    CASE seen = SelectAllSql -> SortById(tbl)
      [] seen = SelectValSql -> << <<stored>> >>
      [] seen = SelectDupSql -> << <<EInt(1), EInt(2)>> >>
      [] seen = SelectParamSql -> << <<BoundValue(ar, bound[1])>> >>
      [] seen = SelectSumSql ->
            LET x == BoundValue(ar, bound[1])
                y == BoundValue(ar, bound[2])
            IN  << << IF x.type = "NULL" \/ y.type = "NULL" THEN ENull
                      ELSE EInt(NumOf(x) + NumOf(y)) >> >>
      [] OTHER -> <<>>

\* the statuses the engine can answer to sqlite3_prepare_v2
PrepareStatuses(seen) ==
    IF seen = BadSql THEN {SQLITE_ERROR}
    ELSE IF seen = EmptySql THEN {SQLITE_OK}
    ELSE {SQLITE_OK, SQLITE_ERROR}

\* the handle prepare writes: none on failure and for text with no statement
PreparedHandle(seen, rc) == IF rc = SQLITE_OK /\ seen # EmptySql THEN 1 ELSE 0

(* -------------------- SQLiteDatabase.bindParameters -------------------- *)
\* an engine bind call at an index: accepted inside 1..ParamCount
BindCall(st, fn, stmt, index, arg, val) ==
    LET ok == index \in DOMAIN st.bound
    IN  [st EXCEPT
           !.calls = Append(@, Call(fn, stmt, <<index, arg>>,
                                    IF ok THEN SQLITE_OK ELSE SQLITE_ERROR)),
           !.bound = IF ok THEN [@ EXCEPT ![index] = val] ELSE @]

\* a loop turn that frees the string buffer as soon as the bind call has
\* returned
BindOneFreeing(st, stmt, param, index) ==
    CASE param.t = "null" -> st
      [] param.t = "number" ->
            [st EXCEPT !.calls = Append(@, Call("sqlite3_bind_int", stmt,
                                                <<index, param.n>>, SQLITE_OK))]
      [] param.t = "string" ->
            LET strPtr == Malloc(st.arena)
                ok == index \in DOMAIN st.bound
            IN  [st EXCEPT
                   !.calls = Append(@, Call("sqlite3_bind_text", stmt,
                                            <<index, <<strPtr, -1, 0>> >>,
                                            IF ok THEN SQLITE_OK ELSE SQLITE_ERROR)),
                   !.bound = IF ok THEN [@ EXCEPT ![index] = ETextAt(strPtr)] ELSE @,
                   !.arena = Free(Alloc(@, "str", param.s \o <<NUL>>), strPtr)]
      [] OTHER ->
            [st EXCEPT !.thrown = TRUE,
                       !.err = <<"Unsupported parameter type: ", param.t>>]

\* a loop turn that makes a bind call for a null entry too
BindOneNullBound(st, stmt, param, index) ==
    CASE param.t = "null" ->
            [st EXCEPT !.calls = Append(@, Call("sqlite3_bind_null", stmt, <<index>>,
                                                SQLITE_OK))]
      [] param.t = "number" ->
            [st EXCEPT !.calls = Append(@, Call("sqlite3_bind_int", stmt,
                                                <<index, param.n>>, SQLITE_OK))]
      [] param.t = "string" ->
            [st EXCEPT !.calls = Append(@, Call("sqlite3_bind_text", stmt,
                                                <<index, <<Malloc(st.arena), -1, 0>> >>,
                                                SQLITE_OK)),
                       !.arena = Alloc(@, "str", param.s \o <<NUL>>)]
      [] OTHER ->
            [st EXCEPT !.thrown = TRUE,
                       !.err = <<"Unsupported parameter type: ", param.t>>]

\* a loop turn that passes over an entry of a type it has no branch for
BindOneSkipping(st, stmt, param, index) ==
    CASE param.t = "null" -> st
      [] param.t = "number" ->
            BindCall(st, "sqlite3_bind_int", stmt, index, ToInt32(param),
                     EInt(ToInt32(param)))
      [] param.t = "string" ->
            LET strPtr == Malloc(st.arena)
                st1 == [st EXCEPT !.arena = Alloc(@, "str", UTF8Bytes(param.s))]
            IN  BindCall(st1, "sqlite3_bind_text", stmt, index, <<strPtr, -1, 0>>,
                         ETextAt(strPtr))
      [] OTHER -> st

\* one turn of the loop of bindParameters, for params[i] and index i + 1
BindOne(st, stmt, param, index) ==
    CASE param.t = "null" -> st
      [] param.t = "number" /\ IsInteger(param) ->
            BindCall(st, "sqlite3_bind_int", stmt, index, ToInt32(param),
                     EInt(ToInt32(param)))
      [] param.t = "number" /\ ~IsInteger(param) ->
            BindCall(st, "sqlite3_bind_double", stmt, index, <<param.n, param.d>>,
                     EReal(param.n, param.d))
      [] param.t = "string" ->
            LET strPtr == Malloc(st.arena)
                st1 == [st EXCEPT !.arena = Alloc(@, "str", UTF8Bytes(param.s))]
            \* _sqlite3_bind_text(stmt, index, strPtr, -1, 0): the engine
            \* finds the length itself and is told the buffer is static
            IN  BindCall(st1, "sqlite3_bind_text", stmt, index, <<strPtr, -1, 0>>,
                         ETextAt(strPtr))
      [] OTHER ->
            [st EXCEPT !.thrown = TRUE,
                       !.err = <<"Unsupported parameter type: ", param.t>>]

RECURSIVE BindLoop(_, _, _, _)
BindLoop(st, stmt, params, index) ==
    IF index > Len(params) \/ st.thrown THEN st
    ELSE BindLoop(BindOne(st, stmt, params[index], index), stmt, params, index + 1)

\* a bindParameters that insists on one entry per placeholder
BindParametersStrict(st, stmt, params) ==
    IF Len(params) < Len(st.bound)
    THEN [st EXCEPT !.thrown = TRUE, !.err = <<"Too few parameters">>]
    ELSE BindLoop(st, stmt, params, 1)

\* bindParameters(stmt, params)
BindParameters(st, stmt, params) == BindLoop(st, stmt, params, 1)

(* ------------------------ SQLiteDatabase.query ------------------------- *)
\* getErrorMessage(): sqlite3_errmsg on the connection handle, and the text
\* read at the address it returns
ErrmsgCall(dbPtr) == Call("sqlite3_errmsg", dbPtr, <<>>, 1)

Max(S) == CHOOSE x \in S : \A y \in S : y <= x

\* const row = {}; row[columns[i]] = ... for i = 0 .. columnCount - 1
RowObject(columns, cells) ==
    [name \in {columns[i] : i \in DOMAIN columns} |->
        cells[Max({i \in DOMAIN columns : columns[i] = name})]]

\* reading one row: a sqlite3_column_text call and a decode per column
ReadRow(st, stmt, columns, vals) ==
    [st EXCEPT
       !.calls = @ \o [i \in DOMAIN columns |->
                         Call("sqlite3_column_text", stmt, <<i - 1>>, ColumnText(vals[i]).ptr)],
       !.given = Append(@, vals),
       !.reads = @ \o SelectSeq([i \in DOMAIN columns |-> ColumnText(vals[i]).ptr],
                                LAMBDA valuePtr : valuePtr # 0),
       !.rows = Append(@, RowObject(columns,
                    [i \in DOMAIN columns |-> DecodeColumn(ColumnText(vals[i]))]))]

RECURSIVE StepLoopNoThrow(_, _, _, _, _, _)
\* a step loop that ends on any status other than ROW, failure included
StepLoopNoThrow(st, dbPtr, stmt, columns, pending, last) ==
    IF pending = <<>>
    THEN [st EXCEPT !.calls = Append(@, Call("sqlite3_step", stmt, <<>>, last))]
    ELSE StepLoopNoThrow(
            [st EXCEPT
               !.calls = Append(@, Call("sqlite3_step", stmt, <<>>, SQLITE_ROW)),
               !.given = Append(@, Head(pending)),
               !.rows = Append(@, [name \in {columns[i] : i \in DOMAIN columns} |->
                                      HNull])],
            dbPtr, stmt, columns, Tail(pending), last)

RECURSIVE StepLoop(_, _, _, _, _, _)
\* while (true) { step; DONE: break; not ROW: throw; read the row }
\* pending are the rows the engine still delivers, last is the status of
\* the step after them (DONE, or a failure)
StepLoop(st, dbPtr, stmt, columns, pending, last) ==
    IF pending = <<>>
    THEN IF last = SQLITE_DONE
         THEN [st EXCEPT !.calls = Append(@, Call("sqlite3_step", stmt, <<>>, last))]
         ELSE [st EXCEPT
                 !.calls = @ \o <<Call("sqlite3_step", stmt, <<>>, last), ErrmsgCall(dbPtr)>>,
                 !.thrown = TRUE,
                 !.err = <<"Step failed: ">> \o EngineMsg]
    ELSE StepLoop(
            ReadRow([st EXCEPT !.calls = Append(@, Call("sqlite3_step", stmt, <<>>, SQLITE_ROW))],
                    stmt, columns, Head(pending)),
            dbPtr, stmt, columns, Tail(pending), last)

\* the body of the inner try: bind, read the column names, fetch the rows.
\* plan = [tbl, stored, fail, failAt] is what the engine will deliver
QueryBody(st, dbPtr, stmt, seen, params, plan) ==
    LET st1 == BindParameters(st, stmt, params)
        names == ColumnNames(seen)
        \* sqlite3_column_name: the address of the name, or the null address
        \* when the engine cannot allocate it
        namePtr == [i \in DOMAIN names |-> IF plan.nameNull THEN 0 ELSE 1]
        \* columns.push(UTF8ToString(namePtr)), the address not tested:
        \* at the null address UTF8ToString finds no text and yields ''
        columns == [i \in DOMAIN names |-> IF namePtr[i] = 0 THEN "" ELSE names[i]]
        \* the buffers of the text parameters, which the engine reads when
        \* the statement steps
        held == {st1.bound[k].ptr : k \in {j \in DOMAIN st1.bound :
                                              st1.bound[j].type = "TEXTPTR"}}
        st2 == [st1 EXCEPT
                  !.calls = @ \o <<Call("sqlite3_column_count", stmt, <<>>, Len(names))>>
                              \o [i \in DOMAIN names |->
                                     Call("sqlite3_column_name", stmt, <<i - 1>>, namePtr[i])],
                  !.columns = columns,
                  !.reads = @ \o namePtr,
                  !.uses = @ \cup {st1.arena[a].kind : a \in held}]
        all == ResultRows(seen, plan.tbl, plan.stored, st1.arena, st1.bound)
        given == IF plan.fail /\ plan.failAt < Len(all)
                 THEN SubSeq(all, 1, plan.failAt) ELSE all
    IN  IF st1.thrown THEN st1
        ELSE StepLoop(st2, dbPtr, stmt, columns, given,
                      IF plan.fail THEN SQLITE_ERROR ELSE SQLITE_DONE)

\* finalize placed after the loop instead of in a finally: skipped on a throw
FinalizeOnSuccess(st, stmt) ==
    IF st.thrown THEN st
    ELSE [st EXCEPT !.calls = Append(@, Call("sqlite3_finalize", stmt, <<>>, SQLITE_OK)),
                    !.stmts = @ \ {stmt}]

\* an inner finally that, after finalizing, builds the error again from the
\* message the engine holds by then
FinalizeThenMessage(st, stmt) ==
    [st EXCEPT !.calls = @ \o <<Call("sqlite3_finalize", stmt, <<>>, SQLITE_OK)>>
                           \o (IF st.thrown THEN <<Call("sqlite3_errmsg", 0, <<>>, 1)>>
                               ELSE <<>>),
               !.err = IF st.thrown THEN <<"Step failed: ", "not an error">> ELSE @,
               !.stmts = @ \ {stmt}]

\* the inner finally: this.module._sqlite3_finalize(stmt)
Finalize(st, stmt) ==
    [st EXCEPT !.calls = Append(@, Call("sqlite3_finalize", stmt, <<>>, SQLITE_OK)),
               !.stmts = @ \ {stmt}]

\* an outer finally that releases the statement cell only
QueryFinallyCellOnly(st, stmtPtr, sqlPtr) ==
    [st EXCEPT !.arena = Free(@, stmtPtr)]

\* the outer finally: _free(stmtPtr); _free(sqlPtr)
QueryFinally(st, stmtPtr, sqlPtr) ==
    [st EXCEPT !.arena = Free(Free(@, stmtPtr), sqlPtr)]

\* query(sql, params) on an open connection; live are the engine's
\* unfinalized statements, plan the engine's answers (rc: the status of
\* prepare). Yields the arena, the engine calls, the rows or the error.
QueryRun(ar, live, dbPtr, sql, params, plan) ==
    LET sqlPtr == Malloc(ar)
        ar1 == Alloc(ar, "sql", UTF8Bytes(sql))
        stmtPtr == Malloc(ar1)
        seen == CStr(ar1[sqlPtr].bytes)
        handle == PreparedHandle(seen, plan.rc)
        \* sqlite3_prepare_v2 stores the statement handle, or 0, in the cell
        ar2 == Alloc(ar1, "cell", <<handle>>)
        st0 == [arena |-> ar2,
                issued |-> sql,
                calls |-> <<Call("sqlite3_prepare_v2", dbPtr, <<seen, handle>>, plan.rc)>>,
                stmts |-> IF handle # 0 THEN live \cup {handle} ELSE live,
                bound |-> [i \in 1..ParamCount(seen) |-> ENull],
                columns |-> <<>>,
                reads |-> <<>>,
                uses |-> {ar1[sqlPtr].kind, ar2[stmtPtr].kind},
                rows |-> <<>>,
                given |-> <<>>,
                thrown |-> FALSE,
                err |-> <<>>]
        stmt == GetValue(ar2, stmtPtr)
        done ==
            IF plan.rc # SQLITE_OK
            THEN [st0 EXCEPT !.calls = Append(@, ErrmsgCall(dbPtr)),
                             !.thrown = TRUE,
                             !.err = <<"Failed to prepare statement: ">> \o EngineMsg]
            ELSE IF stmt = 0
            THEN [st0 EXCEPT !.thrown = TRUE,
                             !.err = <<"Failed to prepare statement: null statement">>]
            ELSE Finalize(QueryBody(st0, dbPtr, stmt, seen, params, plan), stmt)
    IN  QueryFinally(done, stmtPtr, sqlPtr)

(* ----------------- setKey, rekey and SQLiteAPI.open -------------------- *)
ClosedError == <<"Database is closed">>

\* setKey(key) on an open connection: exec of the keying directive, any
\* error rethrown as "Failed to set encryption key: ..."
SetKeyRun(ar, dbPtr, key, eng) ==
    LET r == ExecRun(ar, dbPtr, KeySql(key), eng)
    IN  [r EXCEPT !.err = IF r.thrown THEN <<"Failed to set encryption key: ">> \o @
                          ELSE @]

\* rekey(newKey) on an open connection
RekeyRun(ar, dbPtr, newKey, eng) == ExecRun(ar, dbPtr, RekeySql(newKey), eng)

\* if (key): null, undefined and the empty string are falsy
Truthy(key) == key.t = "string" /\ key.s # <<>>

NoConn == [dbPtr |-> 0, closed |-> TRUE, exists |-> FALSE]
\* new SQLiteDatabase(module, dbPtr)
NewDatabase(dbPtr) == [dbPtr |-> dbPtr, closed |-> FALSE, exists |-> TRUE]

\* a finally of open that releases the handle cell only
OpenFinallyCellOnly(ar, dbPtrPtr, filenamePtr) == Free(ar, dbPtrPtr)

\* the finally of open: _free(dbPtrPtr); _free(filenamePtr)
OpenFinally(ar, dbPtrPtr, filenamePtr) == Free(Free(ar, dbPtrPtr), filenamePtr)

\* an open without the test of the handle it read back
OpenRunNoNullCheck(ar, filename, key, eng) ==
    LET filenamePtr == Malloc(ar)
        ar1 == Alloc(ar, "path", UTF8Bytes(filename))
        dbPtrPtr == Malloc(ar1)
        ar2 == Alloc(ar1, "cell", <<eng.handle>>)
        call == Call("sqlite3_open", 0, <<CStr(ar1[filenamePtr].bytes), eng.handle>>,
                     eng.openRc)
        keying == SetKeyRun(ar2, eng.handle, key.s, eng)
        r == IF eng.openRc # SQLITE_OK
             THEN [arena |-> ar2, issued |-> <<>>, calls |-> <<call>>, thrown |-> TRUE,
                   err |-> <<"Failed to open database: ">> \o Dec(eng.openRc), db |-> NoConn]
             ELSE IF Truthy(key)
             THEN [arena |-> keying.arena, issued |-> keying.issued,
                   calls |-> <<call>> \o keying.calls,
                   thrown |-> keying.thrown, err |-> keying.err,
                   db |-> IF keying.thrown THEN NoConn ELSE NewDatabase(eng.handle)]
             ELSE [arena |-> ar2, issued |-> <<>>, calls |-> <<call>>, thrown |-> FALSE,
                   err |-> <<>>, db |-> NewDatabase(eng.handle)]
    IN  [r EXCEPT !.arena = Free(Free(@, dbPtrPtr), filenamePtr)]

\* open(filename, key); eng = [openRc, handle, rc, msgNull]: the status of
\* sqlite3_open, the handle it writes, and the engine's answer to the
\* keying directive. Yields the connection returned, or the error thrown.
OpenRun(ar, filename, key, eng) ==
    LET filenamePtr == Malloc(ar)
        ar1 == Alloc(ar, "path", UTF8Bytes(filename))
        dbPtrPtr == Malloc(ar1)
        ar2 == Alloc(ar1, "cell", <<eng.handle>>)
        call == Call("sqlite3_open", 0, <<CStr(ar1[filenamePtr].bytes), eng.handle>>,
                     eng.openRc)
        dbPtr == GetValue(ar2, dbPtrPtr)
        keying == SetKeyRun(ar2, dbPtr, key.s, eng)
        r == IF eng.openRc # SQLITE_OK
             THEN [arena |-> ar2, issued |-> <<>>, calls |-> <<call>>, thrown |-> TRUE,
                   err |-> <<"Failed to open database: ">> \o Dec(eng.openRc), db |-> NoConn]
             ELSE IF dbPtr = 0
             THEN [arena |-> ar2, issued |-> <<>>, calls |-> <<call>>, thrown |-> TRUE,
                   err |-> <<"Failed to open database: null pointer">>, db |-> NoConn]
             ELSE IF Truthy(key)
             THEN [arena |-> keying.arena, issued |-> keying.issued,
                   calls |-> <<call>> \o keying.calls,
                   thrown |-> keying.thrown, err |-> keying.err,
                   db |-> IF keying.thrown THEN NoConn ELSE NewDatabase(dbPtr)]
             ELSE [arena |-> ar2, issued |-> <<>>, calls |-> <<call>>, thrown |-> FALSE,
                   err |-> <<>>, db |-> NewDatabase(dbPtr)]
        keyed == eng.openRc = SQLITE_OK /\ dbPtr # 0 /\ Truthy(key)
    IN  [r EXCEPT !.arena = OpenFinally(@, dbPtrPtr, filenamePtr)]
        @@ [reads |-> IF keyed THEN keying.reads ELSE <<>>,
            uses |-> {ar1[filenamePtr].kind, ar2[dbPtrPtr].kind}
                     \cup (IF keyed THEN keying.uses ELSE {})]

(* ------------------------------ the state ------------------------------ *)
VARIABLES
    conn,       \* the caller's SQLiteDatabase object: dbPtr, closed
    arena,      \* the linear memory: per address, the live buffer or free
    engOpen,    \* engine: the connection handles that are open
    stmts,      \* engine: the statement handles that are not finalized
    edb,        \* engine: the database behind the caller's connection
    ranStmt,    \* a statement was executed or prepared on the connection
    closeCalls, \* sqlite3_close calls made through the caller's connection
    disk,       \* engine: the database file
    caller,     \* what the caller did with the database file
    loader,     \* the WASM module's load state and the initSQLite promises
    runner,     \* the test runner: suites spawned, events, results
    last        \* the last public call: inputs, engine calls, outcome

vars == <<conn, arena, engOpen, stmts, edb, ranStmt, closeCalls, disk, caller,
          loader, runner, last>>

\* the state of the binding and the engine
dbVars == <<conn, arena, engOpen, stmts, edb, ranStmt, closeCalls, disk, caller, last>>

\* the state around the binding: module loading and the test runner
hostVars == <<loader, runner>>

KeyChars == {"k", QUOTE, NUL}
Keys == SeqsUpTo(KeyChars, MaxKeyLen)
\* the key argument of open: absent, or a string
KeyArgs == {HNull} \cup {HStr(k) : k \in Keys}
Handles == 1..MaxHandles
MemoryPath == <<":memory:">>
FilePath == <<"/test.db">>

\* the caller's account of the database file: the key argument the open
\* connection on it was opened with, whether a call was made on it since,
\* and the last re-keying that succeeded on it, with the rows the file held
NoRekey == [done |-> FALSE, old |-> HNull, new |-> <<>>, data |-> <<>>]
NoCaller == [key |-> HNull, fresh |-> FALSE, rekey |-> NoRekey]

\* the caller's account after a call other than open on the connection
Used(c) == [c EXCEPT !.fresh = FALSE]

Fits(n) == Cardinality(FreeAddrs(arena)) >= n

\* the record of a public call; before holds what the call started from
\* (issued: the SQL text it handed on; given: the engine rows it was given;
\* bound: the values the engine holds for the statement's parameters;
\* columns: the column names read; reads: the addresses decoded as text;
\* uses: the state of the buffers handed to the engine, as its calls found
\* them)
Done(op, args, r, ret) ==
    [op |-> op, args |-> args, issued |-> r.issued, calls |-> r.calls,
     thrown |-> r.thrown, err |-> r.err, ret |-> ret, given |-> r.given,
     bound |-> IF "bound" \in DOMAIN r THEN r.bound ELSE <<>>,
     columns |-> IF "columns" \in DOMAIN r THEN r.columns ELSE <<>>,
     reads |-> IF "reads" \in DOMAIN r THEN r.reads ELSE <<>>,
     uses |-> IF "uses" \in DOMAIN r THEN r.uses ELSE {},
     before |-> [closed |-> conn.closed, live |-> Live(arena), ranStmt |-> ranStmt,
                 closeCalls |-> closeCalls, fresh |-> caller.fresh, disk |-> disk]]

\* no call has returned a result the caller has yet to take
Idle ==
    [op |-> "idle", args |-> <<>>, issued |-> <<>>, calls |-> <<>>, thrown |-> FALSE,
     err |-> <<>>, ret |-> <<>>, given |-> <<>>, bound |-> <<>>, columns |-> <<>>,
     reads |-> <<>>, uses |-> {},
     before |-> [closed |-> TRUE, live |-> {}, ranStmt |-> FALSE, closeCalls |-> 0,
                 fresh |-> FALSE, disk |-> NoFile]]

\* the caller makes one call at a time
Ready == last = Idle

\* the module required but its runtime not yet initialized: calledRun
\* false, no onRuntimeInitialized handler installed (0), no promise made
NotLoaded == [calledRun |-> FALSE, onRuntimeInitialized |-> 0, promises |-> <<>>]

\* the runner before its first suite: results = [], totalTime = 0, nothing
\* spawned, no event fired, no promise resolved, the process running
NotRun ==
    [spawned |-> 0, resolved |-> {}, fired |-> {}, results |-> <<>>, totalTime |-> 0,
     exit |-> -1]

Init ==
    /\ conn = NoConn
    /\ arena = EmptyArena
    /\ engOpen = {}
    /\ stmts = {}
    /\ edb = FreshDb
    /\ ranStmt = FALSE
    /\ closeCalls = 0
    /\ disk = NoFile
    /\ caller = NoCaller
    /\ loader = NotLoaded
    /\ runner = NotRun
    /\ last = Idle

\* the outcome of a call that hands on no SQL text and reads no rows
Plain(calls, thrown, err) ==
    [issued |-> <<>>, calls |-> calls, thrown |-> thrown, err |-> err, given |-> <<>>]

\* a closed check made after the SQL text was copied into the arena
RefuseLate(op, args) ==
    /\ last' = Done(op, args, Plain(<<>>, TRUE, ClosedError), <<>>)
    /\ arena' = IF FreeAddrs(arena) = {} THEN arena ELSE Alloc(arena, "sql", <<NUL>>)
    /\ UNCHANGED <<conn, engOpen, stmts, edb, ranStmt, closeCalls, disk, caller>>

\* the failure of a call on a closed connection: thrown before anything
Refuse(op, args) ==
    /\ last' = Done(op, args, Plain(<<>>, TRUE, ClosedError), <<>>)
    /\ UNCHANGED <<conn, arena, engOpen, stmts, edb, ranStmt, closeCalls, disk, caller>>

\* the engine's answers to sqlite3_exec of a text: a status the text allows
\* and, for a failure, whether the message pointer is left null
ExecAnswers(seen, db) ==
    {[rc |-> rc, msgNull |-> n] : rc \in ExecStatuses(seen, db, disk), n \in BOOLEAN}
        \ {[rc |-> SQLITE_OK, msgNull |-> TRUE]}

NoAnswer == [rc |-> SQLITE_OK, msgNull |-> FALSE]

\* the engine's answers to sqlite3_open: success with a new handle, success
\* with no handle written, or a failure that leaves a handle behind, or one
\* that writes none
OpenAnswers ==
    LET h == CHOOSE x \in Handles \ engOpen : \A y \in Handles \ engOpen : x <= y
    IN  {[openRc |-> SQLITE_OK, handle |-> h],
         [openRc |-> SQLITE_OK, handle |-> 0],
         [openRc |-> SQLITE_ERROR, handle |-> h],
         [openRc |-> SQLITE_ERROR, handle |-> 0]}

\* sqlite.open(path, key) for a path among paths and a key argument among
\* keyArgs, the caller holding no open connection
Open(paths, keyArgs) ==
    /\ Ready
    /\ UNCHANGED hostVars
    /\ ~conn.exists \/ conn.closed
    /\ Handles \ engOpen # {}
    /\ \E path \in paths, key \in keyArgs :
         LET keying == Truthy(key)
             keySeen == CStr(UTF8Bytes(KeySql(key.s)))
             db0 == IF path = FilePath THEN FileDb(disk) ELSE FreshDb
         IN  /\ Fits(IF keying THEN 5 ELSE 2)
             /\ \E o \in OpenAnswers :
                \E k \in IF keying /\ o.openRc = SQLITE_OK
                          THEN ExecAnswers(keySeen, db0) ELSE {NoAnswer} :
                  LET r == OpenRun(arena, path, key,
                                   [openRc |-> o.openRc, handle |-> o.handle,
                                    rc |-> k.rc, msgNull |-> k.msgNull])
                  IN  /\ last' = Done("open", <<key>>, r @@ [given |-> <<>>], <<>>)
                      /\ arena' = r.arena
                      /\ engOpen' = engOpen \cup ({o.handle} \ {0})
                      /\ IF r.thrown
                         THEN UNCHANGED <<conn, edb, ranStmt, closeCalls, caller>>
                         ELSE /\ conn' = r.db
                              /\ edb' = IF keying
                                         THEN DbAfterExec(db0, keySeen, k.rc)
                                         ELSE db0
                              /\ ranStmt' = keying
                              /\ closeCalls' = 0
                              /\ caller' = IF path = FilePath
                                            THEN [caller EXCEPT !.key = key,
                                                                !.fresh = TRUE]
                                            ELSE caller
                      /\ UNCHANGED <<stmts, disk>>

\* the caller's account after a call that changed the database file: the
\* rows it held at the last re-keying are no longer the rows it holds
Wrote(c, store, after) == IF after = store THEN c ELSE [c EXCEPT !.rekey = NoRekey]

\* db.exec(sql) for a text among texts
Exec(texts) ==
    /\ Ready
    /\ UNCHANGED hostVars
    /\ conn.exists
    /\ \E sql \in texts :
         IF conn.closed THEN Refuse("exec", <<sql>>)
         ELSE LET seen == CStr(UTF8Bytes(sql))
              IN  /\ Fits(3)
                  /\ sql = InsertSql => Len(edb.tbl) + Len(InsertedRows) <= MaxTableRows
                  /\ \E k \in ExecAnswers(seen, edb) :
                       LET r == ExecRun(arena, conn.dbPtr, sql, k)
                       IN  /\ last' = Done("exec", <<sql>>, r @@ [given |-> <<>>], <<>>)
                           /\ arena' = r.arena
                           /\ edb' = DbAfterExec(edb, seen, k.rc)
                           /\ disk' = FileAfterExec(disk, edb', seen, k.rc)
                           /\ caller' = Wrote(Used(caller), disk, disk')
                           /\ ranStmt' = TRUE
                           /\ UNCHANGED <<conn, engOpen, stmts, closeCalls>>

\* db.setKey(key) for a key among keys
SetKey(keys) ==
    /\ Ready
    /\ UNCHANGED hostVars
    /\ conn.exists
    /\ \E key \in keys :
         IF conn.closed THEN Refuse("setKey", <<key>>)
         ELSE LET seen == CStr(UTF8Bytes(KeySql(key)))
              IN  /\ Fits(3)
                  /\ \E k \in ExecAnswers(seen, edb) :
                       LET r == SetKeyRun(arena, conn.dbPtr, key, k)
                       IN  /\ last' = Done("setKey", <<key>>, r @@ [given |-> <<>>], <<>>)
                           /\ arena' = r.arena
                           /\ edb' = DbAfterExec(edb, seen, k.rc)
                           /\ caller' = Used(caller)
                           /\ ranStmt' = TRUE
                           /\ UNCHANGED <<conn, engOpen, stmts, closeCalls, disk>>

\* db.rekey(newKey) for a key among keys
Rekey(keys) ==
    /\ Ready
    /\ UNCHANGED hostVars
    /\ conn.exists
    /\ \E key \in keys :
         IF conn.closed THEN Refuse("rekey", <<key>>)
         ELSE LET seen == CStr(UTF8Bytes(RekeySql(key)))
              IN  /\ Fits(3)
                  /\ \E k \in ExecAnswers(seen, edb) :
                       LET r == RekeyRun(arena, conn.dbPtr, key, k)
                       IN  /\ last' = Done("rekey", <<key>>, r @@ [given |-> <<>>], <<>>)
                           /\ arena' = r.arena
                           /\ edb' = DbAfterExec(edb, seen, k.rc)
                           /\ disk' = FileAfterExec(disk, edb', seen, k.rc)
                           /\ caller' = IF edb.file /\ disk.written /\ ~r.thrown
                                         THEN [key |-> caller.key, fresh |-> FALSE,
                                               rekey |-> [done |-> TRUE,
                                                          old |-> caller.key,
                                                          new |-> key,
                                                          data |-> disk.tbl]]
                                         ELSE Used(caller)
                           /\ ranStmt' = TRUE
                           /\ UNCHANGED <<conn, engOpen, stmts, closeCalls>>

StringParams(params) == {i \in DOMAIN params : params[i].t = "string"}

\* what the engine can deliver for a statement: the status of prepare, the
\* stored value it reads, whether and after how many rows a step fails, and
\* whether it returns the null address for the column names; on pages the
\* handle's key does not read, prepare fails or the first step does
QueryPlans(seen) ==
    LET ok == [rc |-> SQLITE_OK, tbl |-> edb.tbl, stored |-> ENull,
               fail |-> FALSE, failAt |-> 0, nameNull |-> FALSE]
        rows == IF seen = SelectAllSql THEN Len(edb.tbl)
                ELSE IF seen = EmptySql THEN 0 ELSE 1
    IN  IF TouchesPages(seen) /\ ~Readable(edb, disk)
        THEN {[ok EXCEPT !.rc = SQLITE_ERROR], [ok EXCEPT !.fail = TRUE]}
        ELSE
        {[ok EXCEPT !.rc = rc] : rc \in PrepareStatuses(seen)}
        \cup (IF seen = SelectValSql
               THEN {[ok EXCEPT !.stored = x] : x \in StoredVals} ELSE {})
        \cup (IF seen \in {BadSql, EmptySql} THEN {}
               ELSE {[ok EXCEPT !.fail = TRUE, !.failAt = k] : k \in 0..rows}
                    \cup {[ok EXCEPT !.nameNull = TRUE]})

\* db.query(sql, params) for a text among texts and a list among lists
Query(texts, lists) ==
    /\ Ready
    /\ UNCHANGED hostVars
    /\ conn.exists
    /\ \E sql \in texts, params \in lists :
         IF conn.closed THEN Refuse("query", <<sql, params>>)
         ELSE /\ Fits(2 + Cardinality(StringParams(params)))
              /\ \E plan \in QueryPlans(CStr(UTF8Bytes(sql))) :
                   LET r == QueryRun(arena, stmts, conn.dbPtr, sql, params, plan)
                   IN  /\ last' = Done("query", <<sql, params>>, r,
                                       IF r.thrown THEN <<>> ELSE r.rows)
                       /\ arena' = r.arena
                       /\ stmts' = r.stmts
                       /\ ranStmt' = TRUE
                       /\ caller' = Used(caller)
                       /\ UNCHANGED <<conn, engOpen, edb, closeCalls, disk>>

\* what the engine returns when it is handed a handle it has closed
StaleReturns == {0, Len(InsertedRows)}

\* db.getChanges(): sqlite3_changes on the handle, open or not
GetChanges ==
    /\ Ready
    /\ UNCHANGED hostVars
    /\ conn.exists
    /\ \E ret \in IF conn.closed THEN StaleReturns ELSE {Changes(edb)} :
         /\ last' = Done("getChanges", <<>>,
                         Plain(<<Call("sqlite3_changes", conn.dbPtr, <<>>, ret)>>,
                               FALSE, <<>>),
                         <<ret>>)
         /\ caller' = Used(caller)
         /\ UNCHANGED <<conn, arena, engOpen, stmts, edb, ranStmt, closeCalls, disk>>

\* db.getErrorMessage(): sqlite3_errmsg on the handle, open or not
GetErrorMessage ==
    /\ Ready
    /\ UNCHANGED hostVars
    /\ conn.exists
    /\ \E text \in IF conn.closed THEN {EngineMsg, <<"Unknown error">>}
                     ELSE {EngineMsg} :
         /\ last' = Done("getErrorMessage", <<>>,
                         Plain(<<ErrmsgCall(conn.dbPtr)>>, FALSE, <<>>), <<text>>)
         /\ caller' = Used(caller)
         /\ UNCHANGED <<conn, arena, engOpen, stmts, edb, ranStmt, closeCalls, disk>>

\* close() without its `if (this.closed) return`
CloseCallsUnguarded(db) == <<Call("sqlite3_close", db.dbPtr, <<>>, SQLITE_OK)>>

\* the engine calls close() makes on a connection object
CloseCalls(db) ==
    IF db.closed THEN <<>> ELSE <<Call("sqlite3_close", db.dbPtr, <<>>, SQLITE_OK)>>

\* db.close()
Close ==
    /\ Ready
    /\ UNCHANGED hostVars
    /\ conn.exists
    /\ LET calls == CloseCalls(conn)
       IN  /\ last' = Done("close", <<>>, Plain(calls, FALSE, <<>>), <<>>)
           /\ closeCalls' = closeCalls + Len(calls)
           /\ engOpen' = IF calls # <<>> /\ stmts = {}
                          THEN engOpen \ {conn.dbPtr} ELSE engOpen
           /\ conn' = [conn EXCEPT !.closed = TRUE]
           /\ caller' = Used(caller)
           /\ UNCHANGED <<arena, stmts, edb, ranStmt, disk>>

\* the caller takes the result of the call and goes on
Return ==
    /\ ~Ready
    /\ UNCHANGED hostVars
    /\ last' = Idle
    /\ UNCHANGED <<conn, arena, engOpen, stmts, edb, ranStmt, closeCalls, disk, caller>>

(* ------------------------------ initSQLite ----------------------------- *)
\* the handler another loader installs on the module (loadSqlcipher)
OtherHandler == -1

\* initSQLite(modulePath): the promise's executor runs at once: it resolves
\* if the runtime has run, and otherwise installs its initialize as the
\* module's onRuntimeInitialized
InitSQLite ==
    /\ Len(loader.promises) < MaxLoads
    /\ loader' = IF loader.calledRun
                  THEN [loader EXCEPT !.promises = Append(@, "resolved")]
                  ELSE [loader EXCEPT !.promises = Append(@, "pending"),
                                      !.onRuntimeInitialized = Len(loader.promises) + 1]
    /\ UNCHANGED <<dbVars, runner>>

\* loadSqlcipher() of the test on the same module, before the runtime has
\* run: SQL.onRuntimeInitialized = () => resolve(SQL)
LoadSqlcipher ==
    /\ ~loader.calledRun
    /\ loader.onRuntimeInitialized # OtherHandler
    /\ loader' = [loader EXCEPT !.onRuntimeInitialized = OtherHandler]
    /\ UNCHANGED <<dbVars, runner>>

\* the runtime finishes initializing: calledRun is set and the handler the
\* module holds, if any, is called
RuntimeInitialized ==
    /\ ~loader.calledRun
    /\ loader' = [loader EXCEPT
                     !.calledRun = TRUE,
                     !.promises = IF loader.onRuntimeInitialized \in DOMAIN @
                                   THEN [@ EXCEPT ![loader.onRuntimeInitialized] = "resolved"]
                                   ELSE @]
    /\ UNCHANGED <<dbVars, runner>>

\* the promise i of initSQLite
Pending(i) == i \in DOMAIN loader.promises /\ loader.promises[i] = "pending"
Resolved(i) == i \in DOMAIN loader.promises /\ loader.promises[i] = "resolved"

\* the caller of a resolved promise uses the API object it got
OpenResolved == (\E i \in 1..MaxLoads : Resolved(i)) /\ Open({MemoryPath}, {HNull})

(* --------------------------- run-all test runner ----------------------- *)
Suites == 1..MaxSuites

\* the entry a handler pushes to results
Entry(suite, success) == [suite |-> suite, success |-> success]

\* what the two handlers of runTest share: results.push(...), totalTime +=
\* duration (a duration counted as 1), resolve()
Settle(suite, event, success) ==
    /\ runner.exit = -1
    /\ suite \in 1..runner.spawned
    /\ <<suite, event>> \notin runner.fired
    /\ runner' = [runner EXCEPT !.fired = @ \cup {<<suite, event>>},
                                 !.results = Append(@, Entry(suite, success)),
                                 !.totalTime = @ + 1,
                                 !.resolved = @ \cup {suite}]
    /\ UNCHANGED <<dbVars, loader>>

\* for (const suite of testSuites) await runTest(suite): the next suite is
\* spawned once the promise of the one before it has resolved
SpawnSuite ==
    /\ runner.exit = -1
    /\ runner.spawned < MaxSuites
    /\ runner.spawned = 0 \/ runner.spawned \in runner.resolved
    /\ runner' = [runner EXCEPT !.spawned = @ + 1]
    /\ UNCHANGED <<dbVars, loader>>

\* testProcess.on('close', (code) => ...): success is code === 0; a child
\* that failed to start closes with a code that is not 0
ChildClose ==
    \E suite \in Suites, code \in {0, 1} :
       /\ <<suite, "error">> \in runner.fired => code # 0
       /\ Settle(suite, "close", code = 0)

\* testProcess.on('error', (error) => ...)
ChildError ==
    \E suite \in Suites :
       /\ suite <= runner.spawned
       /\ Settle(suite, "error", FALSE)

\* after the loop: printSummary(), then process.exit(1) if an entry failed,
\* and otherwise the process ends with status 0
RunnerExit ==
    /\ runner.exit = -1
    /\ runner.spawned = MaxSuites
    /\ MaxSuites \in runner.resolved
    /\ runner' = [runner EXCEPT
                     !.exit = IF \E k \in DOMAIN runner.results : ~runner.results[k].success
                              THEN 1 ELSE 0]
    /\ UNCHANGED <<dbVars, loader>>

(* --------------------------- specifications ---------------------------- *)
\* every public call in any order, on a few inputs of each kind
SomeKey == <<"k">>
Next ==
    \/ Open({MemoryPath}, {HNull, HStr(<<>>), HStr(SomeKey)})
    \/ Exec({CreateSql, BadSql})
    \/ Query({SelectValSql, SelectParamSql, BadSql}, {<<>>, <<HStr(<<"a">>)>>})
    \/ SetKey({SomeKey})
    \/ Rekey({SomeKey})
    \/ GetChanges
    \/ GetErrorMessage
    \/ Close
    \/ Return

Spec == Init /\ [][Next]_vars

\* queries of every text with every params list, on a connection opened
\* without a key and a table filled by exec
NextQuery ==
    \/ Open({MemoryPath}, {HNull})
    \/ Exec({CreateSql, InsertSql})
    \/ Query(QueryTexts, ParamLists)
    \/ Return

SpecQuery == Init /\ [][NextQuery]_vars

\* keying with every key: at open, by setKey and by rekey
NextKey ==
    \/ Open({MemoryPath}, KeyArgs)
    \/ SetKey(Keys)
    \/ Rekey(Keys)
    \/ Close
    \/ Return

SpecKey == Init /\ [][NextKey]_vars

\* the entries of a params list, of every host type: null, integers inside
\* and beyond 32 bits, strings (empty, with a zero character), byte arrays
BindVals ==
    {HNull, HNum(2), HBig(1, 5), HStr(<<>>), HStr(<<"a">>), HStr(<<"a", NUL, "b">>),
     HBlob(<<"x">>), HBlob(<<>>)}

BindLists == SeqsUpTo(BindVals, MaxParams)

\* queries of the statements with placeholders, with params lists shorter
\* than, as long as and longer than the placeholders
NextBind ==
    \/ Open({MemoryPath}, {HNull})
    \/ Query({SelectParamSql, SelectSumSql}, BindLists)
    \/ Return

SpecBind == Init /\ [][NextBind]_vars

\* a database file written, re-keyed, closed and reopened under several keys
StoreKeys == {<<"k">>, <<"k", QUOTE>>}

\* a keying directive written by hand around the text of a key
HandKey(text) == <<PragmaKeyPrefix, QUOTE>> \o text \o <<QUOTE>>

\* the text of each key as a literal written by hand, its quote doubled
HandLiteral(k) == IF k = <<"k", QUOTE>> THEN <<"k", QUOTE, QUOTE>> ELSE k

NextStore ==
    \/ Open({FilePath}, {HNull} \cup {HStr(k) : k \in StoreKeys \cup {<<>>, <<NUL>>}})
    \/ Exec({CreateSql, InsertSql}
            \cup {HandKey(k) : k \in StoreKeys \cup {<<>>}}
            \cup {HandKey(HandLiteral(k)) : k \in StoreKeys})
    \/ Rekey(StoreKeys)
    \/ Query({SelectAllSql, SelectValSql}, {<<>>})
    \/ Close
    \/ Return

SpecStore == Init /\ [][NextStore]_vars

\* queries whose result columns have distinct names and the same name
NextShape ==
    \/ Open({MemoryPath}, {HNull})
    \/ Exec({CreateSql, InsertSql})
    \/ Query({SelectAllSql, SelectDupSql}, {<<>>})
    \/ Close
    \/ Return

SpecShape == Init /\ [][NextShape]_vars

\* initSQLite called any number of times, before and after the runtime has
\* initialized, next to another loader; the API object of a resolved
\* promise is used. The runtime-initialized event fires eventually.
NextLoad ==
    \/ InitSQLite
    \/ LoadSqlcipher
    \/ RuntimeInitialized
    \/ OpenResolved
    \/ Close
    \/ Return

SpecLoad == Init /\ [][NextLoad]_vars /\ WF_vars(RuntimeInitialized)

\* the run-all runner: suites spawned in turn, the events of their child
\* processes in every order and combination
NextRunner ==
    \/ SpawnSuite
    \/ ChildClose
    \/ ChildError
    \/ RunnerExit

SpecRunner == Init /\ [][NextRunner]_vars

(* ------------------------------- claims -------------------------------- *)
\* the places of the calls of an entry point in the last call's log
CallsOf(fn) == {i \in DOMAIN last.calls : last.calls[i].fn = fn}

\* the last call was made on an open connection
OnOpen(op) == last.op = op /\ ~last.before.closed

\* C1: after every query on an open connection, returning or throwing, as
\* many arena allocations are outstanding as before the call
C1_QueryRestoresAllocations ==
    OnOpen("query") => Cardinality(Live(arena)) = Cardinality(last.before.live)

\* C2: in query, a statement handle that prepare produced is finalized
\* exactly once, as the last engine call, also when binding throws or a
\* step fails; without a handle finalize is not called
C2_FinalizeOncePerPrepare ==
    OnOpen("query") =>
        LET handle == last.calls[1].args[2]
            finals == CallsOf("sqlite3_finalize")
        IN  /\ last.calls[1].fn = "sqlite3_prepare_v2"
            /\ CallsOf("sqlite3_prepare_v2") = {1}
            /\ IF handle # 0
               THEN /\ finals = {Len(last.calls)}
                    /\ last.calls[Len(last.calls)].h = handle
                    /\ handle \notin stmts
               ELSE finals = {}

\* a query whose step failed after a row was read, its statement finalized
C2_Witness ==
    /\ OnOpen("query")
    /\ last.thrown
    /\ last.given # <<>>
    /\ last.err[1] = "Step failed: "
    /\ Cardinality(CallsOf("sqlite3_finalize")) = 1

\* C3: after every exec on an open connection, returning or throwing, the
\* SQL buffer, the out-pointer cell and the engine's error-message buffer
\* are released: no buffer is live that was not live before
C3_ExecReleasesBuffers ==
    OnOpen("exec") => Live(arena) = last.before.live

\* C4: every call other than close on a closed connection throws the
\* use-after-close error and makes no engine call
C4_ClosedRefusesAll ==
    (last.op \notin {"idle", "open", "close"} /\ last.before.closed) =>
        /\ last.thrown
        /\ last.err = ClosedError
        /\ last.calls = <<>>

\* C5: sqlite3_close is called at most once through a connection: the
\* first close() calls it on the connection's handle and marks the
\* connection closed, a later close() returns without any engine call
C5_CloseIdempotent ==
    /\ closeCalls <= 1
    /\ conn.exists => (closeCalls = 1 <=> conn.closed)
    /\ last.op = "close" =>
          /\ ~last.thrown
          /\ conn.closed
          /\ IF last.before.closed
             THEN last.calls = <<>> /\ closeCalls = last.before.closeCalls
             ELSE /\ Len(last.calls) = 1
                  /\ last.calls[1].fn = "sqlite3_close"
                  /\ last.calls[1].h = conn.dbPtr

\* a second close() on a connection that was closed before
C5_Witness ==
    /\ last.op = "close"
    /\ last.before.closed
    /\ closeCalls = 1

\* the host value of an engine value under decoding by runtime type
TypedValue(val) ==
    CASE val.type = "NULL" -> HNull
      [] val.type = "INTEGER" -> HNum(val.n)
      [] val.type = "REAL" ->
            [t |-> "number", n |-> val.n, w |-> 0, d |-> val.d, s |-> <<>>]
      [] val.type = "TEXT" -> HStr(val.s)
      [] OTHER -> [t |-> "bytes", n |-> 0, w |-> 0, d |-> 0, s |-> val.s]

\* the columns whose value a row object keeps: the last of each name
Kept(columns) ==
    {i \in DOMAIN columns : \A j \in DOMAIN columns : columns[j] = columns[i] => j <= i}

\* the cells of the rows a query returned: row, column, the engine's value
\* and the host value returned for it
Cells ==
    IF last.op = "query" /\ ~last.thrown
    THEN LET columns == last.columns
         IN  {[row |-> r, col |-> i, engine |-> last.given[r][i],
               host |-> last.ret[r][columns[i]]] :
                  r \in DOMAIN last.ret, i \in Kept(columns)}
    ELSE {}

\* C6: every column value a query returns is the engine's value decoded by
\* its runtime type (INTEGER to a host integer, REAL to a double, TEXT to
\* text, BLOB to bytes, NULL to null); the ids of the rows (1,'a'),(2,'b')
\* are the integers 1 and 2, and SELECT ? + ? of 2 and 3 is the integer 5
C6_ValuesTypedByEngine ==
    /\ \A c \in Cells : c.host = TypedValue(c.engine)
    /\ (OnOpen("query") /\ ~last.thrown /\ last.issued = SelectSumSql
           /\ last.args[2] = <<HNum(2), HNum(3)>>)
        => last.ret = << [name \in {"? + ?"} |-> HNum(5)] >>

\* C7: every non-NULL column value a query returns is a string, the text of
\* the value (read up to its first zero byte), whatever its runtime type,
\* and a NULL column value is returned as null
C7_ValuesAsText ==
    \A c \in Cells :
        IF c.engine.type = "NULL" THEN c.host = HNull
        ELSE /\ c.host.t = "string"
             /\ c.host = HStr(CStr(TextOf(c.engine)))
             /\ NUL \notin {TextOf(c.engine)[i] : i \in DOMAIN TextOf(c.engine)}
                  => c.host.s = TextOf(c.engine)

\* a query returned the integer 31 as the string '31' and a NULL as null
C7_Witness ==
    /\ \E c \in Cells : c.engine = EInt(31) /\ c.host = HStr(<<"3", "1">>)

\* the key argument of the last open
OpenKey == last.args[1]

\* the last call ran the keying directive and the engine accepted it
KeyingSucceeded ==
    \E i \in CallsOf("sqlite3_exec") :
        /\ IsPragma(last.calls[i].args[1], PragmaKeyPrefix)
        /\ last.calls[i].ret = SQLITE_OK

\* C8: open with a key (any key value other than null/undefined) returns a
\* connection only after the keying directive succeeded on it, and throws
\* when keying fails
C8_KeyedBeforeReturned ==
    (last.op = "open" /\ OpenKey # HNull /\ ~last.thrown) =>
        KeyingSucceeded /\ edb.keyed

\* C9: a keying directive is executed on a connection only right after
\* open, before any other statement was executed or prepared on it
C9_KeyOnlyAfterOpen ==
    \A i \in CallsOf("sqlite3_exec") :
        IsPragma(last.calls[i].args[1], PragmaKeyPrefix) =>
            last.op = "open" \/ ~last.before.ranStmt

\* the number of quote characters of a string
Quotes(s) == Cardinality({i \in DOMAIN s : s[i] = QUOTE})

\* C10: the statement setKey (rekey) hands to exec is PRAGMA key = '<k>'
\* (PRAGMA rekey = '<k>') where the literal has one character more than
\* the key per quote in it and, read as an SQL string literal, denotes
\* exactly the key
C10_KeyLiteralDenotesKey ==
    \A op \in {"setKey", "rekey"} :
        OnOpen(op) =>
            LET key == last.args[1]
                text == last.issued
            IN  /\ IsPragma(text, IF op = "setKey" THEN PragmaKeyPrefix
                                  ELSE PragmaRekeyPrefix)
                /\ Len(text) = 3 + Len(key) + Quotes(key)
                /\ PragmaLiteral(text) = [ok |-> TRUE, val |-> key]
                /\ Len(last.calls) = 1
                /\ last.calls[1].fn = "sqlite3_exec"
                /\ last.calls[1].args[1] = CStr(text)

\* setKey with a key of two quotes, accepted by the engine
C10_Witness ==
    /\ OnOpen("setKey")
    /\ last.args[1] = <<QUOTE, QUOTE>>
    /\ ~last.thrown

\* the last call was a query whose statement was prepared
Prepared ==
    /\ OnOpen("query")
    /\ last.calls[1].ret = SQLITE_OK
    /\ last.calls[1].args[2] # 0

\* the places of the bind calls in the last call's log
BindCalls ==
    {i \in DOMAIN last.calls :
        last.calls[i].fn \in {"sqlite3_bind_int", "sqlite3_bind_double",
                              "sqlite3_bind_text", "sqlite3_bind_blob",
                              "sqlite3_bind_null"}}

\* C11: when the engine rejects a bind call of a query (an index beyond the
\* statement's placeholders), the query throws a bind failure, no step is
\* executed and the statement is finalized
C11_RejectedBindFails ==
    (Prepared /\ \E i \in BindCalls : last.calls[i].ret # SQLITE_OK) =>
        /\ last.thrown
        /\ CallsOf("sqlite3_step") = {}
        /\ CallsOf("sqlite3_finalize") = {Len(last.calls)}

\* the host types bindParameters has a branch for
Bindable == {"null", "number", "string"}

\* C12: a query with fewer params than the statement has placeholders makes
\* no bind call for the remaining indices, which stay NULL in the engine,
\* does not fail because of them and goes on to step: SELECT ? + ? with
\* one param returns one row holding null
C12_FewerParamsLeftNull ==
    LET params == last.args[2]
        count == ParamCount(last.calls[1].args[1])
    IN  (Prepared /\ Len(params) < count) =>
            /\ \A i \in BindCalls : last.calls[i].args[1] \in 1..Len(params)
            /\ \A k \in (Len(params) + 1)..count : last.bound[k] = ENull
            /\ (\A i \in DOMAIN params : params[i].t \in Bindable)
                  => CallsOf("sqlite3_step") # {}
            /\ last.thrown
                  => last.err[1] \in {"Step failed: ", "Unsupported parameter type: "}
            /\ (~last.thrown /\ last.issued = SelectSumSql)
                  => last.ret = << [name \in {last.columns[1]} |-> HNull] >>

\* SELECT ? + ? ran with the one param 2 and returned null
C12_Witness ==
    /\ Prepared
    /\ last.issued = SelectSumSql
    /\ last.args[2] = <<HNum(2)>>
    /\ Cardinality(BindCalls) = 1
    /\ last.ret = << [name \in {"? + ?"} |-> HNull] >>

\* the entries bindParameters reaches: those before the first entry of a
\* type it does not support
Reached(params) ==
    {i \in DOMAIN params : \A j \in 1..i : params[j].t \in Bindable}

\* C13: bindParameters makes no bind call and no allocation for a null
\* entry, and binds every other entry it reaches at its own 1-based
\* position, in order: one call per non-null entry, by the entry's type,
\* and one allocation per string entry
C13_NullEntriesSkipped ==
    Prepared =>
        LET params == last.args[2]
            expected == {i \in Reached(params) : params[i].t # "null"}
        IN  /\ {last.calls[i].args[1] : i \in BindCalls} = expected
            /\ Cardinality(BindCalls) = Cardinality(expected)
            /\ \A i, j \in BindCalls :
                  i < j => last.calls[i].args[1] < last.calls[j].args[1]
            /\ \A i \in BindCalls :
                  last.calls[i].fn =
                     (IF params[last.calls[i].args[1]].t = "string"
                      THEN "sqlite3_bind_text" ELSE "sqlite3_bind_int")
            /\ Live(arena) \ last.before.live =
                  {last.calls[i].args[2][1] : i \in CallsOf("sqlite3_bind_text")}
            /\ Cardinality(Live(arena) \ last.before.live) =
                  Cardinality({i \in expected : params[i].t = "string"})

\* a query with params [null, 2]: one bind call, at index 2
C13_Witness ==
    /\ Prepared
    /\ last.args[2] = <<HNull, HNum(2)>>
    /\ \E i \in BindCalls :
          /\ BindCalls = {i}
          /\ last.calls[i].fn = "sqlite3_bind_int"
          /\ last.calls[i].args = <<2, 2>>

\* C14: an integer parameter reaches the engine with its full 64-bit value:
\* the value every integer bind call hands over is the params entry
\* itself, also for an entry beyond the signed 32-bit range
C14_IntegerPassed64Bit ==
    Prepared =>
        \A i \in CallsOf("sqlite3_bind_int") :
            last.args[2][last.calls[i].args[1]] = HBig(0, last.calls[i].args[2])

\* C15: SELECT ? with one text parameter s returns exactly one row whose
\* value is s, byte for byte, the empty string and a string with a zero
\* character included
C15_TextRoundTrip ==
    LET params == last.args[2]
    IN  (Prepared /\ last.issued = SelectParamSql /\ Len(params) = 1
            /\ params[1].t = "string" /\ ~last.thrown)
        => last.ret = << [name \in {"?"} |-> HStr(params[1].s)] >>

\* C16: a byte-array parameter is accepted: query binds it through the
\* engine's blob entry point and does not reject its type
C16_BlobAccepted ==
    LET params == last.args[2]
    IN  (Prepared /\ params # <<>> /\ \A i \in DOMAIN params : params[i].t = "object")
        => /\ \A i \in DOMAIN params :
                 \E c \in CallsOf("sqlite3_bind_blob") : last.calls[c].args[1] = i
            /\ ~(last.thrown /\ last.err[1] = "Unsupported parameter type: ")

\* C17: after a text bind the engine holds its own copy of the text: no
\* bound value of the statement is an address into the arena
C17_TextBindTransient ==
    OnOpen("query") => \A k \in DOMAIN last.bound : last.bound[k].type # "TEXTPTR"

\* C18: when prepare returns a non-success status or writes no statement
\* handle, query throws the prepare failure (with the connection's error
\* text for a non-success status), makes no bind, step or finalize call,
\* and frees the SQL buffer and the statement cell
C18_PrepareFailureCleansUp ==
    (OnOpen("query")
        /\ (last.calls[1].ret # SQLITE_OK \/ last.calls[1].args[2] = 0)) =>
        /\ last.calls[1].fn = "sqlite3_prepare_v2"
        /\ last.thrown
        /\ IF last.calls[1].ret # SQLITE_OK
           THEN /\ Len(last.calls) = 2
                /\ last.calls[2] = ErrmsgCall(conn.dbPtr)
                /\ last.err = <<"Failed to prepare statement: ">> \o EngineMsg
           ELSE /\ Len(last.calls) = 1
                /\ last.err = <<"Failed to prepare statement: null statement">>
        /\ BindCalls = {}
        /\ CallsOf("sqlite3_step") = {}
        /\ CallsOf("sqlite3_finalize") = {}
        /\ Live(arena) = last.before.live

\* a query with a string parameter whose statement the engine could not
\* prepare
C18_Witness ==
    /\ OnOpen("query")
    /\ last.args = <<BadSql, <<HStr(<<"a">>)>> >>
    /\ last.calls[1].ret # SQLITE_OK
    /\ last.thrown

\* C19: query collects one row per step that returns ROW, in step order,
\* and returns them at the first DONE; any other status throws the step
\* failure; no step is made after a step that did not return ROW
C19_OneRowPerRowStep ==
    OnOpen("query") =>
        LET steps == CallsOf("sqlite3_step")
            rowSteps == {i \in steps : last.calls[i].ret = SQLITE_ROW}
            columns == last.columns
        IN  /\ \A i \in steps :
                  last.calls[i].ret # SQLITE_ROW => \A j \in steps : j <= i
            /\ Len(last.given) = Cardinality(rowSteps)
            /\ (\E i \in steps : last.calls[i].ret \notin {SQLITE_ROW, SQLITE_DONE})
                  => last.thrown /\ last.err = <<"Step failed: ">> \o EngineMsg
            /\ ~last.thrown =>
                  /\ \E i \in steps : last.calls[i].ret = SQLITE_DONE
                  /\ Len(last.ret) = Cardinality(rowSteps)
                  /\ \A k \in DOMAIN last.ret :
                        \A c \in Kept(columns) :
                           last.ret[k][columns[c]] = DecodeColumn(ColumnText(last.given[k][c]))
                  /\ last.issued = SelectAllSql =>
                        \A k \in DOMAIN last.ret :
                           "id" \in DOMAIN last.ret[k] =>
                              last.ret[k]["id"] = HStr(Dec(SortById(edb.tbl)[k][1].n))

\* a query that read the two rows of the table and then DONE
C19_Witness ==
    /\ OnOpen("query")
    /\ ~last.thrown
    /\ Len(last.ret) = 2
    /\ Cardinality(CallsOf("sqlite3_step")) = 3

\* C20: exec throws "SQLite error: <message>" exactly when sqlite3_exec
\* returns a non-success status; the message is the engine's, and when the
\* engine left the message pointer null it is the fallback text
C20_ExecThrowsOnFailure ==
    OnOpen("exec") =>
        /\ Len(last.calls) = 1
        /\ last.calls[1].fn = "sqlite3_exec"
        /\ last.thrown <=> last.calls[1].ret # SQLITE_OK
        /\ ~last.thrown => last.err = <<>>
        /\ last.thrown =>
              last.err = <<"SQLite error: ">>
                         \o (IF last.calls[1].args[2] = 0 THEN <<"Unknown error">>
                             ELSE EngineMsg)

\* an exec that failed with the message pointer left null
C20_Witness ==
    /\ OnOpen("exec")
    /\ last.thrown
    /\ last.calls[1].args[2] = 0
    /\ last.err = <<"SQLite error: ", "Unknown error">>

\* the engine's open failed: a non-success status, or no handle written
EngineOpenFailed == last.calls[1].ret # SQLITE_OK \/ last.calls[1].args[2] = 0

\* the keying directive that open ran was rejected by the engine
KeyingFailed ==
    \E i \in CallsOf("sqlite3_exec") : last.calls[i].ret # SQLITE_OK

\* the caller holds an open connection on the handle h
Holds(h) == conn = [dbPtr |-> h, closed |-> FALSE, exists |-> TRUE]

\* the last open threw the open-failure error and returned no connection
OpenFailure ==
    /\ last.thrown
    /\ last.err \in {<<"Failed to open database: ">> \o Dec(last.calls[1].ret),
                      <<"Failed to open database: null pointer">>}
    /\ ~conn.exists \/ conn.closed

\* C21 as stated: open throws the open failure whenever the engine's open
\* fails, and in every other case returns an open connection on the handle
\* the engine wrote
C21_OpenReturnsUnlessEngineFails ==
    last.op = "open" =>
        IF EngineOpenFailed THEN OpenFailure
        ELSE ~last.thrown /\ Holds(last.calls[1].args[2])

\* C21 amended: open throws the open failure whenever the engine's open
\* fails; otherwise it throws the keying failure and returns no connection
\* when the keying directive of a supplied key is rejected, and in every
\* other case returns an open connection on the handle the engine wrote
C21_OpenFailsKeyingFailsOrReturns ==
    last.op = "open" =>
        /\ last.calls[1].fn = "sqlite3_open"
        /\ IF EngineOpenFailed THEN OpenFailure /\ Len(last.calls) = 1
           ELSE IF KeyingFailed
           THEN /\ last.thrown
                /\ last.err[1] = "Failed to set encryption key: "
                /\ ~conn.exists \/ conn.closed
           ELSE ~last.thrown /\ Holds(last.calls[1].args[2])

\* an open that threw because the engine reported success and wrote no
\* handle
C21_Witness ==
    /\ last.op = "open"
    /\ last.calls[1].ret = SQLITE_OK
    /\ last.calls[1].args[2] = 0
    /\ last.err = <<"Failed to open database: null pointer">>

\* C22: on every exit of open (return, failed engine open, no handle,
\* failed keying) the path buffer and the handle cell are freed, each once:
\* neither is left allocated and no address was freed twice
C22_OpenFreesPathAndCell ==
    last.op = "open" =>
        \A a \in Addr : arena[a].kind \notin {"path", "cell", "doublefree"}

\* an open that threw because keying with the supplied key failed
C22_Witness ==
    /\ last.op = "open"
    /\ last.thrown
    /\ last.err[1] = "Failed to set encryption key: "
    /\ \A a \in Addr : arena[a].kind \notin {"path", "cell"}

\* C23: between public calls the engine holds no unfinalized statement,
\* so when close() calls sqlite3_close the connection has none and the
\* engine closes the handle
C23_NoStatementOutlivesConnection ==
    /\ stmts = {}
    /\ (last.op = "close" /\ last.calls # <<>>) => conn.dbPtr \notin engOpen

\* a close, through the engine, of a connection that had run statements
C23_Witness ==
    /\ last.op = "close"
    /\ last.calls # <<>>
    /\ last.before.ranStmt
    /\ conn.dbPtr \notin engOpen

\* the last call was the first call on a connection newly opened on the
\* database file
FirstOnFile(op) == OnOpen(op) /\ edb.file /\ last.before.fresh

\* the key argument is not the key the pages of the file were written with
WrongKey(arg, store) ==
    store.written /\ store.keyed /\ (arg = HNull \/ arg.s # store.key)

\* the key argument is the key the pages of the file were written with, or
\* there is neither
SameKey(arg, store) ==
    /\ store.written
    /\ IF arg = HNull \/ arg.s = <<>> THEN ~store.keyed
       ELSE store.keyed /\ store.key = arg.s

\* the rows the last query returned are the rows of the table tbl, in the
\* order of their ids, each column as its text
ReturnsRowsOf(tbl) ==
    /\ Len(last.ret) = Len(tbl)
    /\ \A k \in DOMAIN last.ret :
          \A c \in Kept(last.columns) :
             last.ret[k][last.columns[c]] = DecodeColumn(ColumnText(SortById(tbl)[k][c]))

\* an engine call of the last call answered a failure
EngineFailed ==
    \E i \in DOMAIN last.calls :
       \/ /\ last.calls[i].fn \in {"sqlite3_prepare_v2", "sqlite3_exec", "sqlite3_open"}
          /\ last.calls[i].ret # SQLITE_OK
       \/ /\ last.calls[i].fn = "sqlite3_step"
          /\ last.calls[i].ret \notin {SQLITE_ROW, SQLITE_DONE}

\* C24 as stated: the first query of any text on a connection opened on an
\* encrypted file with a key other than the key it was written with throws
C24_WrongKeyFirstQueryThrows ==
    (FirstOnFile("query") /\ caller.key # HNull /\ WrongKey(caller.key, disk))
        => last.thrown

\* C24 amended: the first query that reads the database, on a connection
\* opened on an encrypted file with a key other than the key it was written
\* with (or with no key), throws and returns no rows
C24_WrongKeyFirstReadThrows ==
    (/\ FirstOnFile("query")
     /\ WrongKey(caller.key, disk)
     /\ TouchesPages(last.issued))
        => last.thrown /\ last.ret = <<>> /\ EngineFailed

\* a first query of the table, thrown, on a connection that open returned
\* for a key other than the key of the written file
C24_Witness ==
    /\ FirstOnFile("query")
    /\ caller.key = HStr(<<"k", QUOTE>>)
    /\ disk.key = <<"k">>
    /\ disk.tbl # <<>>
    /\ last.issued = SelectAllSql
    /\ last.thrown

\* C25: a rekey(new) that succeeds on a written file leaves its rows as they
\* were under the key new; after it, on the file as the re-keying left it,
\* the first read of a connection reopened with the old key throws, and the
\* first read of one reopened with new fails only if the engine fails and
\* otherwise returns the rows the file held at the re-keying
C25_RekeyReplacesKeyKeepsData ==
    /\ (OnOpen("rekey") /\ edb.file /\ last.before.disk.written /\ ~last.thrown) =>
          /\ disk = [last.before.disk EXCEPT !.keyed = TRUE, !.key = last.args[1]]
          /\ caller.rekey.done
    /\ (/\ FirstOnFile("query")
        /\ TouchesPages(last.issued)
        /\ caller.rekey.done
        /\ caller.rekey.old # HNull) =>
          /\ (caller.key = caller.rekey.old /\ caller.rekey.old.s # caller.rekey.new)
                => last.thrown
          /\ caller.key = HStr(caller.rekey.new) =>
                /\ last.thrown => EngineFailed
                /\ ~last.thrown => ReturnsRowsOf(caller.rekey.data)

\* a first query that returned the two rows written under the key k, on a
\* connection reopened with the key the file was re-keyed to
C25_Witness ==
    /\ FirstOnFile("query")
    /\ caller.rekey.done
    /\ caller.rekey.old = HStr(<<"k">>)
    /\ caller.rekey.new = <<"k", QUOTE>>
    /\ caller.key = HStr(<<"k", QUOTE>>)
    /\ ~last.thrown
    /\ Len(last.ret) = 2
    /\ last.ret[2]["name"] = HStr(<<"b">>)

\* a new connection on the file as the engine holds it once the key k is set
KeyedFile(k) == [FileDb(disk) EXCEPT !.keyed = (k # <<>>), !.key = k]

\* the last call left an open connection keyed with k and the file untouched
KeyedWith(k) ==
    /\ conn.exists /\ ~conn.closed
    /\ edb = KeyedFile(k)
    /\ disk = last.before.disk

\* C26 as stated: the keying directive open hands the engine for a key is
\* the text PRAGMA key = '<key>' with the key as it is, and the open leaves
\* the connection as that directive by hand does
C26_ApiKeyIsDirectiveByHand ==
    (last.op = "open" /\ last.args[1] # HNull) =>
        \A i \in CallsOf("sqlite3_exec") :
           last.calls[i].args[1] = CStr(UTF8Bytes(HandKey(last.args[1].s)))

\* C26 amended: for every key whose keying the engine accepts, open(path,
\* key) and open(path) followed at once by exec of PRAGMA key = '<key>'
\* written with each quote of the key doubled leave the same state: an open
\* connection keyed with the key and the file untouched; the directive open
\* hands the engine is that text
C26_ApiKeyIsEscapedDirectiveByHand ==
    /\ (last.op = "open" /\ last.args[1] # HNull /\ ~last.thrown) =>
          /\ KeyedWith(last.args[1].s)
          /\ \A i \in CallsOf("sqlite3_exec") :
                \E k \in StoreKeys :
                   /\ last.args[1] = HStr(k)
                   /\ last.calls[i].args[1] = CStr(UTF8Bytes(HandKey(HandLiteral(k))))
    /\ \A k \in StoreKeys \cup {<<>>} :
          (/\ FirstOnFile("exec")
           /\ caller.key = HNull
           /\ last.args[1] = HandKey(HandLiteral(k))
           /\ ~last.thrown) => KeyedWith(k)

\* an open with the key k' on the written file, its directive accepted
C26_Witness ==
    /\ last.op = "open"
    /\ last.args[1] = HStr(<<"k", QUOTE>>)
    /\ ~last.thrown
    /\ disk.written
    /\ edb.key = <<"k", QUOTE>>

\* the directive with the quote of k' doubled, accepted as the first call on
\* a connection opened without a key: the state C26_Witness is in
C26_WitnessByHand ==
    /\ FirstOnFile("exec")
    /\ caller.key = HNull
    /\ last.args[1] = HandKey(HandLiteral(<<"k", QUOTE>>))
    /\ ~last.thrown
    /\ disk.written
    /\ edb.key = <<"k", QUOTE>>

\* C27: rows written to the file are on the file under the key of the
\* connection that wrote them; the first read of a new connection opened on
\* the file with the key it was written with (or with none, if it was
\* written with none) fails only if the engine fails, and otherwise returns
\* the rows the file holds, as does every read of the file that returns
C27_RowsPersistAcrossConnections ==
    /\ (OnOpen("exec") /\ edb.file /\ last.issued = InsertSql /\ ~last.thrown) =>
          /\ disk.tbl = last.before.disk.tbl \o InsertedRows
          /\ disk.keyed = edb.keyed /\ disk.key = edb.key
    /\ (/\ FirstOnFile("query")
        /\ last.issued = SelectAllSql
        /\ SameKey(caller.key, disk)) =>
          /\ last.thrown => EngineFailed
          /\ ~last.thrown => ReturnsRowsOf(disk.tbl)
    /\ (OnOpen("query") /\ edb.file /\ last.issued = SelectAllSql /\ ~last.thrown) =>
          ReturnsRowsOf(disk.tbl)

\* a first query, on a connection reopened with the key k, that returned the
\* two rows written under that key
C27_Witness ==
    /\ FirstOnFile("query")
    /\ caller.key = HStr(<<"k">>)
    /\ disk.keyed /\ disk.key = <<"k">>
    /\ ~last.thrown
    /\ Len(last.ret) = 2
    /\ last.ret[1]["id"] = HStr(<<"1">>)
    /\ last.ret[1]["name"] = HStr(<<"a">>)
    /\ last.ret[2]["id"] = HStr(<<"2">>)
    /\ last.ret[2]["name"] = HStr(<<"b">>)

\* the same on a file written and reopened without a key
C27_WitnessUnkeyed ==
    /\ FirstOnFile("query")
    /\ caller.key = HNull
    /\ disk.written /\ ~disk.keyed
    /\ ~last.thrown
    /\ Len(last.ret) = 2
    /\ last.ret[2]["name"] = HStr(<<"b">>)

\* the characters of a key that are its secret: all but the quote and the
\* zero character
Secret(key) == {key[i] : i \in DOMAIN key} \ {QUOTE, NUL}

\* C28: after open, setKey or rekey has returned or thrown, the connection
\* object has no field for the key, and the error the call threw contains
\* nothing of the key
C28_KeyNotRetainedNorReported ==
    \A op \in {"open", "setKey", "rekey"} :
        last.op = op =>
            LET key == IF op = "open" THEN last.args[1].s ELSE last.args[1]
            IN  /\ DOMAIN conn = {"dbPtr", "closed", "exists"}
                /\ \A i \in DOMAIN last.err : last.err[i] \notin Secret(key)

\* C29: no text is decoded at the null address: every address handed to
\* UTF8ToString (column name, column value, exec error message) was
\* tested and is not 0
C29_NullAddressNeverDecoded ==
    \A i \in DOMAIN last.reads : last.reads[i] # 0

\* C30: every buffer handed to an engine call, or read by the engine while
\* a statement steps, is allocated when the call is made, and no address
\* is freed twice
C30_NoUseAfterRelease ==
    /\ last.uses \subseteq {"sql", "cell", "path", "str"}
    /\ \A a \in Addr : arena[a].kind # "doublefree"

\* a query that stepped a statement with a text parameter bound
C30_Witness ==
    /\ OnOpen("query")
    /\ last.issued = SelectParamSql
    /\ ~last.thrown
    /\ "str" \in last.uses
    /\ \E k \in DOMAIN last.bound : last.bound[k].type = "TEXTPTR"

\* C31: no address is passed to free twice, no call frees an address that
\* was allocated before it began (each call frees only buffers it allocated
\* itself), and the message buffer the engine allocated for a failed exec
\* is still allocated when the call has thrown
C31_NoDoubleRelease ==
    /\ \A a \in Addr : arena[a].kind # "doublefree"
    /\ last.op # "idle" => last.before.live \subseteq Live(arena)
    /\ \A i \in CallsOf("sqlite3_exec") :
          last.calls[i].args[2] # 0 => arena[last.calls[i].args[2]].kind = "errmsg"

\* an exec that threw on an engine error after freeing its two buffers,
\* the engine's message buffer alone added to the allocated addresses
C31_Witness ==
    /\ OnOpen("exec")
    /\ last.thrown
    /\ \E a \in Addr : /\ Live(arena) = last.before.live \cup {a}
                       /\ a \notin last.before.live
                       /\ arena[a].kind = "errmsg"

\* C32: when open throws after the engine wrote a connection handle (its
\* open failed with a handle written, or keying failed), sqlite3_close was
\* called on that handle before the throw and the engine no longer holds it
\* open
C32_FailedOpenClosesHandle ==
    (last.op = "open" /\ last.thrown /\ last.calls[1].args[2] # 0) =>
        /\ \E i \in CallsOf("sqlite3_close") : last.calls[i].h = last.calls[1].args[2]
        /\ last.calls[1].args[2] \notin engOpen

\* the places in the last call's log where prepare or a step answered a
\* failure
FailedAt ==
    {i \in DOMAIN last.calls :
        \/ last.calls[i].fn = "sqlite3_prepare_v2" /\ last.calls[i].ret # SQLITE_OK
        \/ /\ last.calls[i].fn = "sqlite3_step"
           /\ last.calls[i].ret \notin {SQLITE_ROW, SQLITE_DONE}}

\* C33: when prepare or a step fails in query, the engine's message is read
\* once, by the call right after the failing one and before any finalize;
\* the query throws the error built from that text, and after the finally
\* blocks have finalized the statement and freed the two buffers that is
\* still the error the caller gets
C33_CleanupKeepsError ==
    (OnOpen("query") /\ FailedAt # {}) =>
        LET msgs == CallsOf("sqlite3_errmsg")
            f == CHOOSE i \in FailedAt : TRUE
        IN  /\ Cardinality(FailedAt) = 1
            /\ msgs = {f + 1}
            /\ \A j \in CallsOf("sqlite3_finalize") : f + 1 < j
            /\ last.calls[f].fn = "sqlite3_step" => CallsOf("sqlite3_finalize") # {}
            /\ last.thrown
            /\ last.err = (IF last.calls[f].fn = "sqlite3_step"
                           THEN <<"Step failed: ">>
                           ELSE <<"Failed to prepare statement: ">>) \o EngineMsg
            /\ \A a \in Addr : arena[a].kind \notin {"sql", "cell"}

\* a query whose second step failed: the message read, then the finalize,
\* and the step error thrown
C33_Witness ==
    /\ OnOpen("query")
    /\ Len(last.given) = 1
    /\ FailedAt # {}
    /\ CallsOf("sqlite3_finalize") # {}
    /\ last.err = <<"Step failed: ">> \o EngineMsg

\* the engine bind entry point for a params entry's type
BindFor(param) ==
    CASE param.t = "number" /\ IsInteger(param) -> {"sqlite3_bind_int", "sqlite3_bind_int64"}
      [] param.t = "number" /\ ~IsInteger(param) -> {"sqlite3_bind_double"}
      [] param.t = "string" -> {"sqlite3_bind_text"}
      [] param.t = "object" -> {"sqlite3_bind_blob"}
      [] OTHER -> {}

\* C34: a prepared query makes, for each non-null entry of params, exactly
\* one bind call at the entry's 1-based position, through the entry point
\* for the entry's type; the bind calls are in increasing order of index
\* and all come before the first step
C34_BindDispatch ==
    Prepared =>
        LET params == last.args[2]
        IN  /\ \A k \in DOMAIN params :
                  params[k].t # "null" =>
                     /\ Cardinality({i \in BindCalls : last.calls[i].args[1] = k}) = 1
                     /\ \A i \in BindCalls :
                           last.calls[i].args[1] = k => last.calls[i].fn \in BindFor(params[k])
            /\ \A i, j \in BindCalls :
                  i < j => last.calls[i].args[1] < last.calls[j].args[1]
            /\ \A i \in BindCalls : \A j \in CallsOf("sqlite3_step") : i < j

\* the number of columns the engine reported for the last query
ColumnCount ==
    LET c == CHOOSE i \in CallsOf("sqlite3_column_count") : TRUE
    IN  last.calls[c].ret

\* C35: a query that returns, the engine having given it every column
\* name, has read each name once, before the first step, and every row it returns has exactly as many entries as the
\* statement has columns, one for each column index
C35_RowHasEveryColumn ==
    (/\ OnOpen("query") /\ ~last.thrown /\ CallsOf("sqlite3_column_count") # {}
     /\ \A i \in CallsOf("sqlite3_column_name") : last.calls[i].ret # 0) =>
        /\ Len(last.columns) = ColumnCount
        /\ \A c \in 0..(ColumnCount - 1) :
              Cardinality({i \in CallsOf("sqlite3_column_name") :
                              last.calls[i].args = <<c>>}) = 1
        /\ \A i \in CallsOf("sqlite3_column_name") :
              \A j \in CallsOf("sqlite3_step") : i < j
        /\ \A k \in DOMAIN last.ret : Cardinality(DOMAIN last.ret[k]) = ColumnCount

\* C36: a prepared query whose params hold an entry that is neither null,
\* a number nor a string throws the unsupported-type error naming the type
\* of the first such entry, steps nothing, finalizes the statement once, as
\* its last engine call, and frees the SQL buffer and the statement cell;
\* the connection is still open, on a handle the engine holds open, with no
\* statement left
C36_UnsupportedParamThrows ==
    LET params == last.args[2]
        bad == {i \in DOMAIN params : params[i].t \notin Bindable}
    IN  (Prepared /\ bad # {}) =>
            LET first == CHOOSE i \in bad : \A j \in bad : i <= j
            IN  /\ last.thrown
                /\ last.err = <<"Unsupported parameter type: ", params[first].t>>
                /\ last.ret = <<>>
                /\ CallsOf("sqlite3_step") = {}
                /\ CallsOf("sqlite3_finalize") = {Len(last.calls)}
                /\ \A a \in Addr : arena[a].kind \notin {"sql", "cell", "doublefree"}
                /\ conn.exists /\ ~conn.closed
                /\ conn.dbPtr \in engOpen
                /\ stmts = {}

\* a query with the params [2, true]: the number bound, then the throw
C36_Witness ==
    /\ Prepared
    /\ last.args[2] = <<HNum(2), HBool>>
    /\ last.err = <<"Unsupported parameter type: ", "boolean">>
    /\ Cardinality(BindCalls) = 1

\* C37: exec, query, setKey and rekey called on a closed connection throw
\* the closed error without an engine call, and the step leaves the arena,
\* the connection object and all engine state as they were
C37_ClosedCallChangesNothing ==
    [][(conn.exists /\ conn.closed /\ last'.op \in {"exec", "query", "setKey", "rekey"})
          => /\ last'.thrown
             /\ last'.err = ClosedError
             /\ last'.calls = <<>>
             /\ UNCHANGED <<conn, arena, engOpen, stmts, edb, ranStmt, closeCalls, disk>>]_vars

\* a rekey refused on a closed connection whose arena holds a buffer
C37_Witness ==
    /\ last.op = "rekey"
    /\ last.before.closed
    /\ last.thrown
    /\ last.calls = <<>>
    /\ Live(arena) # {}

\* C38: every promise initSQLite has returned is eventually resolved, and
\* a promise is resolved only once the runtime has initialized
C38_EveryPromiseResolves ==
    /\ \A i \in 1..MaxLoads : Pending(i) ~> Resolved(i)
    /\ [](\A i \in 1..MaxLoads : Resolved(i) => loader.calledRun)

\* the entries of results for a suite
EntriesOf(suite) == {k \in DOMAIN runner.results : runner.results[k].suite = suite}

\* C39: a suite is spawned only after the promise of the one before it
\* resolved; a suite whose promise resolved has exactly one entry in
\* results and no suite has more, totalTime holds one duration per suite
\* with an entry, and the runner exits with 1 exactly when an entry has
\* success = false
C39_OneEntryPerSuite ==
    /\ \A s \in 2..runner.spawned : (s - 1) \in runner.resolved
    /\ \A s \in Suites :
          /\ Cardinality(EntriesOf(s)) <= 1
          /\ s \in runner.resolved => Cardinality(EntriesOf(s)) = 1
    /\ runner.totalTime = Cardinality({s \in Suites : EntriesOf(s) # {}})
    /\ runner.exit # -1 =>
          /\ \A s \in Suites : Cardinality(EntriesOf(s)) = 1
          /\ runner.exit = 1 <=> \E k \in DOMAIN runner.results : ~runner.results[k].success

====
